---- MODULE Spec2Model ----
(***************************************************************************)
(* Recorded GPU allocation (paddle/fluid/platform/device/gpu/gpu_info.cc):  *)
(* the process-wide table of RecordedGpuMallocHelper objects built once by  *)
(* Instance(), and the Malloc / Free / GetMemInfo paths of each helper,     *)
(* run by several host threads.                                             *)
(*                                                                          *)
(* uint64_t is modelled with WordBits bits (TLC integers are 32-bit); all   *)
(* arithmetic on cur_size_ and limit_size_ is taken modulo Word. Sizes are  *)
(* in bytes.                                                                *)
(***************************************************************************)
EXTENDS Integers, Sequences, FiniteSets, TLC

\* ---------------------------------------------------------------- bounds
NumThreads == 3
NumDevices == 2
MaxCalls == 3
MaxSeqCalls == 4
WordBits == 28
DeviceTotalMB == 170
NumSlots == 3
NumHandles == 2

\* `<< 20` in `FLAGS_gpu_memory_limit_mb << 20`
MBShift == 20

MB == 2^MBShift
Word == 2^WordBits
DeviceTotal == DeviceTotalMB * MB

Threads == 1..NumThreads
\* the threads of the specification with every call on every ordinal
Callers == 1..(NumThreads - 1)
Devices == 0..(NumDevices - 1)
\* device ordinals a caller may pass: valid ones, -1 and deviceCount
DevChoices == (0 - 1)..NumDevices
NULL == 0
\* base addresses the driver may return for a non-empty block
SlotBase(i) == i * (Word \div (NumSlots + 1))
Bases == {SlotBase(i) : i \in 1..NumSlots}
PtrChoices == {NULL} \cup Bases
\* request sizes: 0, two ordinary sizes, and one that wraps cur_size_ + size
Huge == Word - 10 * MB
SizeChoices == {0, 50 * MB, 60 * MB, Huge}
LimitMBChoices == {0, 100}
NoThread == 0
\* values of FLAGS_gpu_memory_limit_mb up to those whose `<< 20` does not
\* fit the word
LimitMBWide == {0, 100, Word \div MB, Word \div MB + 100}

AllOps == {"Malloc", "Free", "GetMemInfo", "RecordedSize", "LimitSize",
           "NeedRecord", "GetBasePtr"}
\* RecordedGpuMemCreate / RecordedGpuMemRelease (CUDA >= 10.2)
VmmOps == {"MemCreate", "MemRelease"}
\* cuMemCreate handles; a call passes its handle in the ptr field
HandleIds == 1..NumHandles
\* addresses asked of GetBasePtr: null, the bases, one inside each slot, and
\* one below every slot
QueryChoices == PtrChoices \cup {SlotBase(i) + MB : i \in 1..NumSlots} \cup {MB}
\* what GpuAvailableMemToAlloc() may answer
AvailChoices == {0, 50 * MB, 100 * MB, DeviceTotal}
\* values of FLAGS_initial_gpu_memory_in_mb / FLAGS_reallocate_gpu_memory_in_mb;
\* the last one is the smallest whose `<< 20` does not fit the word
SizeMBChoices == {0, 50, 100, 200, Word \div MB}
\* values of FLAGS_fraction_of_gpu_memory_to_use, in percent
FractionChoices == {0, 50, 100, 150}

VARIABLES
    FLAGS_gpu_memory_limit_mb,  \* configuration flag (MB)
    driver,         \* "up" | "unloading": the device runtime of the process
    once_flag_,     \* "idle" | "running" | "done"
    instances_,     \* the static table: sequence of helper objects
    nObjs,          \* helpers constructed so far (object identities)
    enumCalls,      \* calls of GetGPUDeviceCount() made by Instance
    cur_size_,      \* per device: the helper's atomic counter
    gpu_ptrs,       \* per device: the helper's address set (testing builds)
    mtx_,           \* per device: thread holding *mtx_, or NoThread
    blocks,         \* per device: live blocks of the driver, {[base, size]}
    pc,             \* per thread: position in the call
    call,           \* per thread: the call in flight / last made
    loc,            \* per thread: locals of the call
    ret,            \* per thread: result of the last completed call
    nCalls,         \* calls started
    handed,         \* history: <<dev_id, object>> pairs Instance has returned
    missized,       \* history, per device: a Free passed a size other
                    \* than that of the block its native free released
    lastCommit,     \* history, per device: about the Malloc that added last
    scn,            \* observer of the calls made so far (see ScnStart)
    last_error,     \* per thread: the runtime's last-error flag
                    \* ("none" | "oom" | "err" | "unloading")
    cur_device,     \* per thread: the current device of the runtime
    handles,        \* live cuMemCreate handles of the driver, {[id, size]}
    FLAGS_initial_gpu_memory_in_mb,      \* configuration flag (MB)
    FLAGS_reallocate_gpu_memory_in_mb,   \* configuration flag (MB)
    FLAGS_fraction_of_gpu_memory_to_use, \* configuration flag, in percent
    FLAGS_enable_gpu_memory_usage_log,   \* configuration flag (boolean)
    exit_log,       \* the helpers destroyed at process exit, in order:
                    \* <<[dev, printed]>>, printed when the destructor wrote
                    \* its memory-usage line
    counted         \* history, per device: the allocations of Malloc whose
                    \* size cur_size_ includes, {[base, size]}

vars == <<FLAGS_gpu_memory_limit_mb, driver, once_flag_, instances_, nObjs,
          enumCalls, cur_size_, gpu_ptrs, mtx_, blocks, pc, call, loc, ret,
          nCalls, handed, missized, lastCommit, scn, last_error, cur_device,
          handles, FLAGS_initial_gpu_memory_in_mb,
          FLAGS_reallocate_gpu_memory_in_mb,
          FLAGS_fraction_of_gpu_memory_to_use,
          FLAGS_enable_gpu_memory_usage_log, exit_log, counted>>

\* the flags of the sizing functions
sizingFlags == <<FLAGS_initial_gpu_memory_in_mb,
                 FLAGS_reallocate_gpu_memory_in_mb,
                 FLAGS_fraction_of_gpu_memory_to_use>>

\* the logging flag and what the destructors did
exitVars == <<FLAGS_enable_gpu_memory_usage_log, exit_log>>

NoCall == [op |-> "none", dev |-> 0, size |-> 0, ptr |-> NULL]
\* prev: the device the CUDADeviceGuard of the call restores on its exit;
\* ndev (history): the current device when the native call of the call ran;
\* amb (history): the current device of the thread when the call began;
\* delta, gmin (history, Malloc between its limit check and its fetch_add):
\*   the bytes other Malloc calls added to the counter meanwhile, and the
\*   smallest request among this call and the calls in that window with it.
NoLoc == [helper |-> 0, dev_cnt |-> 0, i |-> 0, result |-> "none",
          ptr |-> NULL, blk |-> 0, over |-> FALSE, mem |-> <<>>,
          delta |-> 0, gmin |-> 0, prev |-> 0, ndev |-> 0 - 1, amb |-> 0]
\* kind: "Success" | "OutOfMemory" (Malloc), "OutOfRange" (Instance),
\*       "Returned" (Free and the accessors), "Fatal" (an enforce failed);
\* at: the return statement of Malloc taken ("limit_check" | "native");
\* over: whether cur_size_ + size exceeded limit_size_ as unbounded integers
\*       when Malloc made its limit check;
\* blk: the size of the block the native free released (Free);
\* amb (history): the current device of the thread when the call began.
NoRet == [kind |-> "none", obj |-> 0, ptr |-> NULL, val |-> 0, at |-> "none",
          over |-> FALSE, blk |-> 0, mem |-> <<>>, amb |-> 0]

\* ------------------------------------------------------ helper object
\* RecordedGpuMallocHelper(dev_id, limit_size): mtx_ is created iff NeedRecord()
NewHelper(obj, dev_id, limit_size) ==
    [obj |-> obj, dev_id_ |-> dev_id, limit_size_ |-> limit_size,
     has_mtx |-> (limit_size # 0)]

\* (variant: every helper records, whatever its limit)
NeedRecordAlways(h) == TRUE

NeedRecord(h) == h.limit_size_ # 0

\* (variant: the flag shifted by 10, as if it were in KB)
LimitFromFlagKB(mb) == (mb * (2^10)) % Word

\* FLAGS_gpu_memory_limit_mb << 20 on uint64_t
LimitFromFlag(mb) == (mb * MB) % Word

HelperOf(t) == instances_[loc[t].helper]
DevOf(t) == HelperOf(t).dev_id_

\* ------------------------------------------------------------- driver
LiveBytes(d) ==
    LET RECURSIVE Sum(_)
        Sum(S) == IF S = {} THEN 0
                  ELSE LET b == CHOOSE x \in S : TRUE
                       IN b.size + Sum(S \ {b})
    IN Sum(blocks[d])

Overlaps(b, s, blk) == ~(b + s <= blk.base \/ blk.base + blk.size <= b)

\* bases at which the driver can place a block of `size` bytes on device d
FreeBases(d, size) ==
    {b \in Bases : /\ b + size <= Word
                   /\ \A blk \in blocks[d] : ~Overlaps(b, size, blk)}

NativeFits(d, size) == LiveBytes(d) + size <= DeviceTotal

Init ==
    /\ FLAGS_gpu_memory_limit_mb \in LimitMBChoices
    /\ driver = "up"
    /\ once_flag_ = "idle"
    /\ instances_ = <<>>
    /\ nObjs = 0
    /\ enumCalls = 0
    /\ cur_size_ = [d \in Devices |-> 0]
    /\ gpu_ptrs = [d \in Devices |-> {}]
    /\ mtx_ = [d \in Devices |-> NoThread]
    /\ blocks = [d \in Devices |-> {}]
    /\ pc = [t \in Threads |-> "idle"]
    /\ call = [t \in Threads |-> NoCall]
    /\ loc = [t \in Threads |-> NoLoc]
    /\ ret = [t \in Threads |-> NoRet]
    /\ nCalls = 0
    /\ handed = {}
    /\ missized = [d \in Devices |-> FALSE]
    /\ lastCommit = [d \in Devices |-> [delta |-> 0, gmin |-> 0]]
    /\ scn = [k |-> 0, p |-> NULL]
    /\ last_error = [t \in Threads |-> "none"]
    /\ cur_device = [t \in Threads |-> 0]
    /\ handles = {}
    /\ FLAGS_initial_gpu_memory_in_mb = 0
    /\ FLAGS_reallocate_gpu_memory_in_mb = 0
    /\ FLAGS_fraction_of_gpu_memory_to_use = 50
    /\ FLAGS_enable_gpu_memory_usage_log = FALSE
    /\ exit_log = <<>>
    /\ counted = [d \in Devices |-> {}]

\* ------------------------------------------------------------ returns
\* the call of thread t ends with result r; "done" is the caller holding it
Return(t, r) ==
    /\ pc' = [pc EXCEPT ![t] = "done"]
    /\ ret' = [ret EXCEPT ![t] = [r EXCEPT !.amb = loc[t].amb]]
    /\ loc' = [loc EXCEPT ![t] = NoLoc]

Goto(t, p) == pc' = [pc EXCEPT ![t] = p]

\* ------------------------------------------------------------ observer
\* Scenario A: on device 0, allocate 60 MB, allocate 50 MB, free the first
\* block with 60 MB, allocate 50 MB, one call after the other. scn.k counts
\* the calls of the scenario completed with every native call succeeding
\* (the call in flight is the next one of it), scn.p is the address the
\* first call returned; ScnOff once the calls made are not the scenario.
ScnOff == [k |-> 0 - 1, p |-> NULL]
ScnCalls(p) ==
    << [op |-> "Malloc", dev |-> 0, size |-> 60 * MB, ptr |-> NULL],
       [op |-> "Malloc", dev |-> 0, size |-> 50 * MB, ptr |-> NULL],
       [op |-> "Free", dev |-> 0, size |-> 60 * MB, ptr |-> p],
       [op |-> "Malloc", dev |-> 0, size |-> 50 * MB, ptr |-> NULL] >>
ScnLen == Len(ScnCalls(NULL))
ScnCall(k, p) == ScnCalls(p)[k]

ScnStart(t, c) ==
    IF /\ scn.k >= 0
       /\ scn.k < ScnLen
       /\ \A u \in Threads \ {t} : pc[u] = "idle"
       /\ c = ScnCall(scn.k + 1, scn.p)
    THEN scn
    ELSE ScnOff

\* a result that reports a failed native call
NativeFailed(r) ==
    \/ r.kind = "Fatal"
    \/ r.kind = "OutOfMemory" /\ r.at = "native"
    \/ r.at = "unloading"

ScnFinish(r) ==
    IF scn.k >= 0 /\ ~NativeFailed(r)
    THEN [k |-> scn.k + 1, p |-> IF scn.k = 0 THEN r.ptr ELSE scn.p]
    ELSE ScnOff

\* --------------------------------------------------------- call entry
\* A host thread calls one of the RecordedGpu* functions; each begins with
\* RecordedGpuMallocHelper::Instance(dev_id).
StartCall(t, ops, devs, sizes, ptrs, maxCalls) ==
    /\ pc[t] = "idle"
    /\ nCalls < maxCalls
    /\ \E op \in ops, dev \in devs :
        \E size \in (IF op \in {"Malloc", "Free"} \cup VmmOps
                     THEN sizes ELSE {0}),
           ptr \in (IF op \in {"Free", "GetBasePtr"} THEN ptrs
                    ELSE IF op = "MemRelease" THEN HandleIds ELSE {NULL}) :
            LET c == [op |-> op, dev |-> dev, size |-> size, ptr |-> ptr]
            IN /\ call' = [call EXCEPT ![t] = c]
               /\ scn' = ScnStart(t, c)
    /\ nCalls' = nCalls + 1
    /\ Goto(t, "call_once")
    /\ loc' = [loc EXCEPT ![t] = [NoLoc EXCEPT !.amb = cur_device[t]]]
    /\ ret' = [ret EXCEPT ![t] = NoRet]
    /\ UNCHANGED <<FLAGS_gpu_memory_limit_mb, driver, once_flag_, instances_,
                   nObjs, enumCalls, cur_size_, gpu_ptrs, mtx_, blocks,
                   handed, missized, lastCommit>>
    /\ UNCHANGED <<last_error, cur_device, handles, sizingFlags, exitVars,
                   counted>>

\* the caller takes the result and is ready for its next call
Finish(t) ==
    /\ pc[t] = "done"
    /\ pc' = [pc EXCEPT ![t] = "idle"]
    /\ call' = [call EXCEPT ![t] = NoCall]
    /\ ret' = [ret EXCEPT ![t] = NoRet]
    /\ scn' = ScnFinish(ret[t])
    /\ UNCHANGED <<FLAGS_gpu_memory_limit_mb, driver, once_flag_, instances_,
                   nObjs, enumCalls, cur_size_, gpu_ptrs, mtx_, blocks, loc,
                   nCalls, handed, missized, lastCommit>>
    /\ UNCHANGED <<last_error, cur_device, handles, sizingFlags, exitVars,
                   counted>>

\* ------------------------------------------------------------ Instance
\* (variant: no once flag, every caller runs the initializer)
CallOnceEvery(t) ==
    /\ pc[t] = "call_once"
    /\ once_flag_' = "running"
    /\ Goto(t, "init_enum")
    /\ UNCHANGED <<FLAGS_gpu_memory_limit_mb, driver, instances_, nObjs,
                   enumCalls, cur_size_, gpu_ptrs, mtx_, blocks, call, loc,
                   ret, nCalls, handed, missized, lastCommit, scn>>
    /\ UNCHANGED <<last_error, cur_device, handles, sizingFlags, exitVars,
                   counted>>

\* (variant: a caller that finds the initializer running does not wait)
CallOnceNoWait(t) ==
    /\ pc[t] = "call_once"
    /\ IF once_flag_ = "idle"
       THEN /\ once_flag_' = "running"
            /\ Goto(t, "init_enum")
       ELSE /\ once_flag_' = once_flag_
            /\ Goto(t, "lookup")
    /\ UNCHANGED <<FLAGS_gpu_memory_limit_mb, driver, instances_, nObjs,
                   enumCalls, cur_size_, gpu_ptrs, mtx_, blocks, call, loc,
                   ret, nCalls, handed, missized, lastCommit, scn>>
    /\ UNCHANGED <<last_error, cur_device, handles, sizingFlags, exitVars,
                   counted>>

\* std::call_once(once_flag_, ...): the first caller runs the initializer,
\* callers arriving while it runs block, later callers pass through.
CallOnce(t) ==
    /\ pc[t] = "call_once"
    /\ once_flag_ # "running"
    /\ IF once_flag_ = "idle"
       THEN /\ once_flag_' = "running"
            /\ Goto(t, "init_enum")
       ELSE /\ once_flag_' = once_flag_
            /\ Goto(t, "lookup")
    /\ UNCHANGED <<FLAGS_gpu_memory_limit_mb, driver, instances_, nObjs,
                   enumCalls, cur_size_, gpu_ptrs, mtx_, blocks, call, loc,
                   ret, nCalls,
                   handed, missized, lastCommit, scn>>
    /\ UNCHANGED <<last_error, cur_device, handles, sizingFlags, exitVars,
                   counted>>

\* int dev_cnt = GetGPUDeviceCount(); instances_.reserve(dev_cnt);
InitEnum(t) ==
    /\ pc[t] = "init_enum"
    /\ enumCalls' = enumCalls + 1
    /\ loc' = [loc EXCEPT ![t].dev_cnt = NumDevices, ![t].i = 0]
    /\ Goto(t, "init_loop")
    /\ UNCHANGED <<FLAGS_gpu_memory_limit_mb, driver, once_flag_, instances_,
                   nObjs, cur_size_, gpu_ptrs, mtx_, blocks, call, ret, nCalls,
                   handed, missized, lastCommit, scn>>
    /\ UNCHANGED <<last_error, cur_device, handles, sizingFlags, exitVars,
                   counted>>

\* for (i = 0; i < dev_cnt; ++i) instances_.emplace_back(new Helper(i, limit));
\* leaving the loop completes the call_once.
InitLoop(t) ==
    /\ pc[t] = "init_loop"
    /\ IF loc[t].i < loc[t].dev_cnt
       THEN /\ instances_' = Append(instances_,
                  NewHelper(nObjs + 1, loc[t].i,
                            LimitFromFlag(FLAGS_gpu_memory_limit_mb)))
            /\ nObjs' = nObjs + 1
            /\ loc' = [loc EXCEPT ![t].i = loc[t].i + 1]
            /\ UNCHANGED <<once_flag_, pc>>
       ELSE /\ once_flag_' = "done"
            /\ Goto(t, "lookup")
            /\ UNCHANGED <<instances_, nObjs, loc>>
    /\ UNCHANGED <<FLAGS_gpu_memory_limit_mb, driver, enumCalls, cur_size_,
                   gpu_ptrs, mtx_, blocks, call, ret, nCalls,
                   handed, missized, lastCommit, scn>>
    /\ UNCHANGED <<last_error, cur_device, handles, sizingFlags, exitVars,
                   counted>>

\* pc at which the method of the call begins
Entry(op) ==
    CASE op = "Malloc" -> "malloc_check"
      [] op = "Free" -> "free_native"
      [] op = "MemCreate" -> "memcreate_native"
      [] op = "MemRelease" -> "memrelease_native"
      [] op = "GetMemInfo" -> "meminfo_query"
      [] OTHER -> "accessor"

\* whether Instance(dev_id) passes PADDLE_ENFORCE_GE(dev_id, 0) and
\* PADDLE_ENFORCE_LT(dev_id, instances_.size())
InRange(dev_id) == dev_id >= 0 /\ dev_id < Len(instances_)

\* (variant: every device id is served by the first helper of the table)
TableIndexFirst(dev_id) == 1

\* instances_[dev_id] (the sequence instances_ is indexed from 1)
TableIndex(dev_id) == dev_id + 1

\* (variant: no bounds checks; the slot read is one of the table)
LookupUnchecked(t) ==
    /\ pc[t] = "lookup"
    /\ loc' = [loc EXCEPT ![t].helper =
                  TableIndex(call[t].dev % Len(instances_))]
    /\ Goto(t, Entry(call[t].op))
    /\ UNCHANGED <<FLAGS_gpu_memory_limit_mb, driver, once_flag_, instances_,
                   nObjs, enumCalls, cur_size_, gpu_ptrs, mtx_, blocks, call,
                   ret, nCalls, handed, missized, lastCommit, scn>>
    /\ UNCHANGED <<last_error, cur_device, handles, sizingFlags, exitVars,
                   counted>>

\* the bounds checks and `return instances_[dev_id].get()`
Lookup(t) ==
    /\ pc[t] = "lookup"
    /\ IF InRange(call[t].dev)
       THEN /\ loc' = [loc EXCEPT ![t].helper = TableIndex(call[t].dev)]
            /\ Goto(t, Entry(call[t].op))
            /\ ret' = ret
            /\ handed' = handed \cup
                   {<<call[t].dev, instances_[TableIndex(call[t].dev)].obj>>}
       ELSE /\ Return(t, [NoRet EXCEPT !.kind = "OutOfRange"])
            /\ handed' = handed
    /\ UNCHANGED <<FLAGS_gpu_memory_limit_mb, driver, once_flag_, instances_,
                   nObjs, enumCalls, cur_size_, gpu_ptrs, mtx_, blocks, call,
                   nCalls, missized, lastCommit, scn>>
    /\ UNCHANGED <<last_error, cur_device, handles, sizingFlags, exitVars,
                   counted>>

\* ------------------------------------------------- runtime, per thread
\* (variant: the guard is given device 0)
GuardedDeviceZero(h) == 0

\* the argument of `CUDADeviceGuard guard(dev_id_)`
GuardedDevice(h) == h.dev_id_

\* CUDADeviceGuard: its constructor makes d the current device of the
\* thread, its destructor (at the end of the scope, by return or by throw)
\* makes the device current before it current again.
GuardEnter(t, d) == [cur_device EXCEPT ![t] = d]
GuardExit(t) == [cur_device EXCEPT ![t] = loc[t].prev]

\* a failing native call leaves its code in the last-error flag of the
\* thread; a succeeding one leaves the flag as it is
NativeError(t, code) == [last_error EXCEPT ![t] = code]
\* (variant: the flag is read and not reset)
GpuGetLastErrorPeek(t) == last_error

\* GpuGetLastError() returns the flag and resets it
GpuGetLastError(t) == [last_error EXCEPT ![t] = "none"]

\* (variant: no code is raised)
RaisePassesAll(status, flag) == TRUE

\* RaiseNonOutOfMemoryError(&status): TRUE when it returns, FALSE when one
\* of its two PADDLE_ENFORCE_GPU_SUCCESS throws; flag is the last-error flag
\* it reads after the first enforce.
RaisePasses(status, flag) ==
    /\ status \in {"ok", "oom"}
    /\ flag \in {"none", "oom"}

\* -------------------------------------------------------------- Malloc
Min(a, b) == IF a < b THEN a ELSE b
SetMin(S) == CHOOSE x \in S : \A y \in S : x <= y

\* threads in Malloc on device d past the limit check and before fetch_add
Pending(d) ==
    {u \in Threads : /\ pc[u] \in {"malloc_native", "malloc_result"}
                     /\ DevOf(u) = d}

\* (variant: the request size left out of the comparison)
OverLimitNoSize(h, cur, size) == NeedRecord(h) /\ cur > h.limit_size_

\* the condition of `if (UNLIKELY(NeedRecord() && cur_size_.load() + size >
\* limit_size_))`, the sum computed in uint64_t
OverLimit(h, cur, size) == NeedRecord(h) /\ (cur + size) % Word > h.limit_size_

MallocCheck(t) ==
    /\ pc[t] = "malloc_check"
    /\ LET h == HelperOf(t)
           cur == cur_size_[h.dev_id_]
           over == NeedRecord(h) /\ cur + call[t].size > h.limit_size_
       IN IF OverLimit(h, cur, call[t].size)
          THEN /\ Return(t, [NoRet EXCEPT !.kind = "OutOfMemory",
                                          !.obj = h.obj,
                                          !.at = "limit_check",
                                          !.over = over])
               /\ cur_device' = cur_device
          ELSE /\ Goto(t, "malloc_native")
               /\ cur_device' = GuardEnter(t, GuardedDevice(h))
               /\ loc' = [u \in Threads |->
                     IF u = t
                     THEN [loc[t] EXCEPT
                            !.prev = cur_device[t],
                            !.over = over,
                            !.delta = 0,
                            !.gmin = SetMin({call[t].size} \cup
                               {call[v].size : v \in Pending(h.dev_id_)})]
                     ELSE IF u \in Pending(h.dev_id_)
                          THEN [loc[u] EXCEPT !.gmin = Min(@, call[t].size)]
                          ELSE loc[u]]
               /\ ret' = ret
    /\ UNCHANGED <<FLAGS_gpu_memory_limit_mb, driver, once_flag_, instances_,
                   nObjs, enumCalls, cur_size_, gpu_ptrs, mtx_, blocks, call,
                   nCalls,
                   handed, missized, lastCommit, scn>>
    /\ UNCHANGED <<last_error, handles, sizingFlags, exitVars,
                   counted>>

\* cudaMalloc / cudaMallocManaged (hipMalloc / hipMallocManaged) under
\* CUDADeviceGuard guard(dev_id_). The driver answers success with a block it
\* has room for (a null pointer for size 0), out-of-memory, or another error;
\* a runtime that is unloading answers only with an error.
MallocNative(t) ==
    /\ pc[t] = "malloc_native"
    /\ LET d == DevOf(t)
           size == call[t].size
       IN \/ /\ driver = "up"
             /\ NativeFits(d, size)
             /\ IF size = 0
                THEN /\ blocks' = blocks
                     /\ loc' = [loc EXCEPT ![t].result = "ok", ![t].ptr = NULL,
                                           ![t].ndev = cur_device[t]]
                ELSE \E b \in FreeBases(d, size) :
                     /\ blocks' = [blocks EXCEPT ![d] =
                                      blocks[d] \cup {[base |-> b, size |-> size]}]
                     /\ loc' = [loc EXCEPT ![t].result = "ok", ![t].ptr = b,
                                           ![t].ndev = cur_device[t]]
             /\ last_error' = last_error
          \/ /\ driver = "up"
             /\ blocks' = blocks
             /\ loc' = [loc EXCEPT ![t].result = "oom",
                                   ![t].ndev = cur_device[t]]
             /\ last_error' = NativeError(t, "oom")
          \/ /\ blocks' = blocks
             /\ loc' = [loc EXCEPT ![t].result = "err",
                                   ![t].ndev = cur_device[t]]
             /\ last_error' = NativeError(t, "err")
    /\ Goto(t, "malloc_result")
    /\ UNCHANGED <<FLAGS_gpu_memory_limit_mb, driver, once_flag_, instances_,
                   nObjs, enumCalls, cur_size_, gpu_ptrs, mtx_, call, ret,
                   nCalls,
                   handed, missized, lastCommit, scn>>
    /\ UNCHANGED <<cur_device, handles, sizingFlags, exitVars,
                   counted>>

\* (variant: a request counts as one byte at least)
FetchAddAtLeastOne(cur, size) ==
    (cur + (IF size = 0 THEN 1 ELSE size)) % Word

\* (variant: the addition is lost)
FetchAddLost(cur, size) == cur

\* cur_size_.fetch_add(size)
FetchAdd(cur, size) == (cur + size) % Word

\* `if (result == gpuSuccess) { cur_size_.fetch_add(size); ...` and
\* `else { RaiseNonOutOfMemoryError(&result); return gpuErrorOutOfMemory; }`
MallocResult(t) ==
    /\ pc[t] = "malloc_result"
    /\ LET h == HelperOf(t)
           d == h.dev_id_
       IN CASE loc[t].result = "ok" ->
                 /\ cur_size_' = [cur_size_ EXCEPT ![d] =
                                     FetchAdd(cur_size_[d], call[t].size)]
                 /\ Goto(t, "malloc_insert")
                 /\ loc' = [u \in Threads |->
                       IF u \in Pending(d) \ {t}
                       THEN [loc[u] EXCEPT !.delta = @ + call[t].size]
                       ELSE loc[u]]
                 /\ lastCommit' = [lastCommit EXCEPT ![d] =
                       [delta |-> loc[t].delta, gmin |-> loc[t].gmin]]
                 /\ counted' = [counted EXCEPT ![d] =
                       @ \cup {[base |-> loc[t].ptr, size |-> call[t].size]}]
                 /\ ret' = ret
                 /\ UNCHANGED <<last_error, cur_device>>
            [] loc[t].result # "ok"
                 /\ RaisePasses(loc[t].result, last_error[t]) ->
                 /\ Return(t, [NoRet EXCEPT !.kind = "OutOfMemory",
                                            !.obj = h.obj,
                                            !.at = "native",
                                            !.over = loc[t].over])
                 /\ last_error' = GpuGetLastError(t)
                 /\ cur_device' = GuardExit(t)
                 /\ UNCHANGED <<cur_size_, lastCommit, counted>>
            [] OTHER ->
                 /\ Return(t, [NoRet EXCEPT !.kind = "Fatal",
                                            !.obj = h.obj,
                                            !.at = "native",
                                            !.over = loc[t].over])
                 /\ last_error' = IF loc[t].result = "oom"
                                  THEN GpuGetLastError(t) ELSE last_error
                 /\ cur_device' = GuardExit(t)
                 /\ UNCHANGED <<cur_size_, lastCommit, counted>>
    /\ UNCHANGED <<FLAGS_gpu_memory_limit_mb, driver, once_flag_, instances_,
                   nObjs, enumCalls, gpu_ptrs, mtx_, blocks, call, nCalls,
                   handed, missized, scn>>
    /\ UNCHANGED <<handles, sizingFlags, exitVars>>

\* Threads inside gpu_ptrs.insert / gpu_ptrs.erase, and inside the
\* gpu_ptrs.upper_bound of GetBasePtr. No lock is held at any of the three
\* (the lock_guard of Malloc is commented out), so the accesses of two
\* threads to the std::set of one helper may overlap.
AtIndexWrite(t) == pc[t] \in {"malloc_insert", "free_erase"}
AtIndexRead(t) == pc[t] = "accessor" /\ call[t].op = "GetBasePtr"
AtIndex(t) == AtIndexWrite(t) \/ AtIndexRead(t)

\* the access of t overlaps a conflicting one (a data race on the std::set)
IndexRaced(t) ==
    \E u \in Threads \ {t} :
        /\ loc[u].helper = loc[t].helper
        /\ AtIndexWrite(u) \/ (AtIndexWrite(t) /\ AtIndexRead(u))

\* the sets a write that is to leave `good` can leave: `good` itself, or,
\* when the write raced, any part of the addresses involved
IndexAfter(t, S, good) ==
    IF IndexRaced(t) THEN SUBSET (S \cup good) ELSE {good}

\* gpu_ptrs.insert(*ptr); return gpuSuccess;
MallocInsert(t) ==
    /\ pc[t] = "malloc_insert"
    /\ LET h == HelperOf(t)
           d == h.dev_id_
       IN /\ \E after \in IndexAfter(t, gpu_ptrs[d],
                                     gpu_ptrs[d] \cup {loc[t].ptr}) :
                gpu_ptrs' = [gpu_ptrs EXCEPT ![d] = after]
          /\ Return(t, [NoRet EXCEPT !.kind = "Success",
                                     !.obj = h.obj,
                                     !.ptr = loc[t].ptr,
                                     !.at = "native",
                                     !.over = loc[t].over])
    /\ cur_device' = GuardExit(t)
    /\ UNCHANGED <<FLAGS_gpu_memory_limit_mb, driver, once_flag_, instances_,
                   nObjs, enumCalls, cur_size_, mtx_, blocks, call, nCalls,
                   handed, missized, lastCommit, scn>>
    /\ UNCHANGED <<last_error, handles, sizingFlags, exitVars,
                   counted>>

\* ---------------------------------------------------------------- Free
BlockAt(d, p) == {blk \in blocks[d] : blk.base = p}

\* cudaFree(ptr) / hipFree(ptr) under CUDADeviceGuard guard(dev_id_): success
\* releases the block at ptr (nothing for a null pointer); an address that
\* is no live block is an error; an unloading runtime answers
\* cudaErrorCudartUnloading and the block is gone with it.
FreeNative(t) ==
    /\ pc[t] = "free_native"
    /\ cur_device' = GuardEnter(t, GuardedDevice(HelperOf(t)))
    /\ LET d == DevOf(t)
           p == call[t].ptr
           hit == BlockAt(d, p)
           released == IF hit = {} THEN 0 ELSE (CHOOSE b \in hit : TRUE).size
       IN \/ /\ driver = "up"
             /\ p = NULL \/ hit # {}
             /\ blocks' = [blocks EXCEPT ![d] = blocks[d] \ hit]
             /\ loc' = [loc EXCEPT ![t].result = "ok", ![t].blk = released,
                                   ![t].prev = cur_device[t],
                                   ![t].ndev = cur_device'[t]]
             /\ last_error' = last_error
          \/ /\ driver = "unloading"
             /\ blocks' = [blocks EXCEPT ![d] = blocks[d] \ hit]
             /\ loc' = [loc EXCEPT ![t].result = "unloading",
                                   ![t].blk = released,
                                   ![t].prev = cur_device[t],
                                   ![t].ndev = cur_device'[t]]
             /\ last_error' = NativeError(t, "unloading")
          \/ /\ driver = "up"
             /\ blocks' = blocks
             /\ loc' = [loc EXCEPT ![t].result = "err",
                                   ![t].prev = cur_device[t],
                                   ![t].ndev = cur_device'[t]]
             /\ last_error' = NativeError(t, "err")
    /\ Goto(t, "free_commit")
    /\ UNCHANGED <<FLAGS_gpu_memory_limit_mb, driver, once_flag_, instances_,
                   nObjs, enumCalls, cur_size_, gpu_ptrs, mtx_, call, ret,
                   nCalls,
                   handed, missized, lastCommit, scn>>
    /\ UNCHANGED <<handles, sizingFlags, exitVars,
                   counted>>

\* (variant: the subtraction is lost)
FetchSubLost(cur, size) == cur

\* cur_size_.fetch_sub(size)
FetchSub(cur, size) == (cur - size) % Word

\* (variant: the unloading code is not told apart)
UnloadingNever(result) == FALSE

\* err == cudaErrorCudartUnloading (hipErrorDeinitialized)
Unloading(result) == result = "unloading"

\* (variant: the enforce lets every code pass)
EnforceNothing(result) == TRUE

\* PADDLE_ENFORCE_GPU_SUCCESS(err) passes
EnforceGpuSuccess(result) == result = "ok"

\* `if (err != cudaErrorCudartUnloading) { PADDLE_ENFORCE_GPU_SUCCESS(err);
\* cur_size_.fetch_sub(size); ... } else { GpuGetLastError(); }`
FreeCommit(t) ==
    /\ pc[t] = "free_commit"
    /\ LET h == HelperOf(t)
           d == h.dev_id_
       IN IF ~Unloading(loc[t].result)
          THEN IF EnforceGpuSuccess(loc[t].result)
               THEN /\ cur_size_' = [cur_size_ EXCEPT ![d] =
                                       FetchSub(cur_size_[d], call[t].size)]
                    /\ missized' = [missized EXCEPT ![d] =
                                       @ \/ call[t].size # loc[t].blk]
                    /\ counted' = [counted EXCEPT ![d] =
                          {c \in @ : c.base # call[t].ptr}]
                    /\ Goto(t, "free_erase")
                    /\ UNCHANGED <<loc, ret, last_error, cur_device>>
               ELSE /\ Return(t, [NoRet EXCEPT !.kind = "Fatal",
                                               !.obj = h.obj,
                                               !.at = loc[t].result])
                    /\ cur_device' = GuardExit(t)
                    /\ UNCHANGED <<cur_size_, missized, last_error, counted>>
          ELSE /\ missized' = [missized EXCEPT ![d] =
                                  @ \/ call[t].size # loc[t].blk]
               /\ last_error' = GpuGetLastError(t)
               /\ Goto(t, "free_erase")
               /\ UNCHANGED <<cur_size_, loc, ret, cur_device, counted>>
    /\ UNCHANGED <<FLAGS_gpu_memory_limit_mb, driver, once_flag_, instances_,
                   nObjs, enumCalls, gpu_ptrs, mtx_, blocks, call, nCalls,
                   handed, lastCommit, scn>>
    /\ UNCHANGED <<handles, sizingFlags, exitVars>>

\* (variant: the address stays in the set)
EraseNone(S, p) == S

\* gpu_ptrs.erase(ptr)
Erase(S, p) == S \ {p}

\* gpu_ptrs.erase(ptr); and the return
FreeErase(t) ==
    /\ pc[t] = "free_erase"
    /\ LET h == HelperOf(t)
           d == h.dev_id_
       IN /\ \E after \in IndexAfter(t, gpu_ptrs[d],
                                     Erase(gpu_ptrs[d], call[t].ptr)) :
                gpu_ptrs' = [gpu_ptrs EXCEPT ![d] = after]
          /\ Return(t, [NoRet EXCEPT !.kind = "Returned",
                                     !.obj = h.obj,
                                     !.at = loc[t].result,
                                     !.blk = loc[t].blk])
    /\ cur_device' = GuardExit(t)
    /\ UNCHANGED <<FLAGS_gpu_memory_limit_mb, driver, once_flag_, instances_,
                   nObjs, enumCalls, cur_size_, mtx_, blocks, call, nCalls,
                   handed, missized, lastCommit, scn>>
    /\ UNCHANGED <<last_error, handles, sizingFlags, exitVars,
                   counted>>

\* ------------------------------------------------ MemCreate, MemRelease
HandleBytes ==
    LET RECURSIVE Sum(_)
        Sum(S) == IF S = {} THEN 0
                  ELSE LET x == CHOOSE y \in S : TRUE
                       IN x.size + Sum(S \ {x})
    IN Sum(handles)

\* cuMemCreate(handle, size, prop, flags): success with a new handle, or an
\* error code; the driver API leaves the runtime's last-error flag alone.
MemCreateNative(t) ==
    /\ pc[t] = "memcreate_native"
    /\ LET used == {x.id : x \in handles}
       IN \/ /\ driver = "up"
             /\ HandleBytes + call[t].size <= DeviceTotal
             /\ \E id \in HandleIds \ used :
                  /\ handles' = handles \cup {[id |-> id, size |-> call[t].size]}
                  /\ loc' = [loc EXCEPT ![t].result = "ok", ![t].ptr = id]
          \/ /\ handles' = handles
             /\ loc' = [loc EXCEPT ![t].result = "err"]
    /\ Goto(t, "memcreate_result")
    /\ UNCHANGED <<FLAGS_gpu_memory_limit_mb, driver, once_flag_, instances_,
                   nObjs, enumCalls, cur_size_, gpu_ptrs, mtx_, blocks, call,
                   ret, nCalls, handed, missized, lastCommit, scn, last_error,
                   cur_device, sizingFlags, exitVars,
                   counted>>

\* `if (result == CUDA_SUCCESS) { cur_size_.fetch_add(size); } return result;`
MemCreateResult(t) ==
    /\ pc[t] = "memcreate_result"
    /\ LET h == HelperOf(t)
           d == h.dev_id_
       IN IF loc[t].result = "ok"
          THEN /\ cur_size_' = [cur_size_ EXCEPT ![d] =
                                  FetchAdd(cur_size_[d], call[t].size)]
               /\ Return(t, [NoRet EXCEPT !.kind = "Success", !.obj = h.obj,
                                          !.ptr = loc[t].ptr])
          ELSE /\ cur_size_' = cur_size_
               /\ Return(t, [NoRet EXCEPT !.kind = "Error", !.obj = h.obj])
    /\ UNCHANGED <<FLAGS_gpu_memory_limit_mb, driver, once_flag_, instances_,
                   nObjs, enumCalls, gpu_ptrs, mtx_, blocks, call, nCalls,
                   handed, missized, lastCommit, scn, last_error, cur_device,
                   handles, sizingFlags, exitVars,
                   counted>>

\* cuMemRelease(handle): success releases a live handle, anything else is an
\* error code.
MemReleaseNative(t) ==
    /\ pc[t] = "memrelease_native"
    /\ LET hit == {x \in handles : x.id = call[t].ptr}
       IN \/ /\ driver = "up"
             /\ hit # {}
             /\ handles' = handles \ hit
             /\ loc' = [loc EXCEPT ![t].result = "ok"]
          \/ /\ handles' = handles
             /\ loc' = [loc EXCEPT ![t].result = "err"]
    /\ Goto(t, "memrelease_result")
    /\ UNCHANGED <<FLAGS_gpu_memory_limit_mb, driver, once_flag_, instances_,
                   nObjs, enumCalls, cur_size_, gpu_ptrs, mtx_, blocks, call,
                   ret, nCalls, handed, missized, lastCommit, scn, last_error,
                   cur_device, sizingFlags, exitVars,
                   counted>>

\* `if (result == CUDA_SUCCESS) { cur_size_.fetch_sub(size); } return result;`
MemReleaseResult(t) ==
    /\ pc[t] = "memrelease_result"
    /\ LET h == HelperOf(t)
           d == h.dev_id_
       IN IF loc[t].result = "ok"
          THEN /\ cur_size_' = [cur_size_ EXCEPT ![d] =
                                  FetchSub(cur_size_[d], call[t].size)]
               /\ Return(t, [NoRet EXCEPT !.kind = "Success", !.obj = h.obj])
          ELSE /\ cur_size_' = cur_size_
               /\ Return(t, [NoRet EXCEPT !.kind = "Error", !.obj = h.obj])
    /\ UNCHANGED <<FLAGS_gpu_memory_limit_mb, driver, once_flag_, instances_,
                   nObjs, enumCalls, gpu_ptrs, mtx_, blocks, call, nCalls,
                   handed, missized, lastCommit, scn, last_error, cur_device,
                   handles, sizingFlags, exitVars,
                   counted>>

\* ------------------------------------------------------ sizing functions
\* available_to_alloc * FLAGS_fraction_of_gpu_memory_to_use converted to
\* size_t: the product of the fraction (pct / 100) and available, truncated
FractionOf(available, pct) ==
    (available \div 100) * pct + ((available % 100) * pct) \div 100

\* flag_mb > 0ul ? flag_mb << 20 : available_to_alloc * fraction
AllocBytes(flag_mb, available, pct) ==
    IF flag_mb > 0 THEN (flag_mb * MB) % Word ELSE FractionOf(available, pct)

\* (variant: the reserve must be smaller than what is available)
EnoughStrict(available, alloc_bytes) == available > alloc_bytes

\* PADDLE_ENFORCE_GE(available_to_alloc, alloc_bytes, ResourceExhausted)
Enough(available, alloc_bytes) == available >= alloc_bytes

\* GpuAllocSize(realloc) given what GpuAvailableMemToAlloc() answered;
\* mem = <<available_to_alloc, alloc_bytes>> (alloc_bytes 0 when the first
\* enforce threw before it was computed)
GpuAllocSize(realloc, available, init_mb, realloc_mb, pct) ==
    LET flag_mb == IF realloc THEN realloc_mb ELSE init_mb
        alloc_bytes == AllocBytes(flag_mb, available, pct)
    IN IF ~(available > 0)
       THEN [NoRet EXCEPT !.kind = "ResourceExhausted", !.mem = <<available, 0>>]
       ELSE IF ~Enough(available, alloc_bytes)
            THEN [NoRet EXCEPT !.kind = "ResourceExhausted",
                               !.mem = <<available, alloc_bytes>>]
            ELSE [NoRet EXCEPT !.kind = "Returned", !.val = alloc_bytes,
                               !.mem = <<available, alloc_bytes>>]

\* a thread calls GpuInitAllocSize() or GpuReallocSize()
StartSizing(t, maxCalls) ==
    /\ pc[t] = "idle"
    /\ nCalls < maxCalls
    /\ \E op \in {"GpuInitAllocSize", "GpuReallocSize"} :
          call' = [call EXCEPT ![t] = [NoCall EXCEPT !.op = op]]
    /\ nCalls' = nCalls + 1
    /\ Goto(t, "alloc_size")
    /\ loc' = [loc EXCEPT ![t] = [NoLoc EXCEPT !.amb = cur_device[t]]]
    /\ ret' = [ret EXCEPT ![t] = NoRet]
    /\ scn' = ScnOff
    /\ UNCHANGED <<FLAGS_gpu_memory_limit_mb, driver, once_flag_, instances_,
                   nObjs, enumCalls, cur_size_, gpu_ptrs, mtx_, blocks,
                   handed, missized, lastCommit, last_error, cur_device,
                   handles, sizingFlags, exitVars,
                   counted>>

\* the body of GpuAllocSize; GpuAvailableMemToAlloc() is answered by the
\* device layer
GpuAllocSizeStep(t) ==
    /\ pc[t] = "alloc_size"
    /\ \E available \in AvailChoices :
          Return(t, GpuAllocSize(call[t].op = "GpuReallocSize", available,
                                 FLAGS_initial_gpu_memory_in_mb,
                                 FLAGS_reallocate_gpu_memory_in_mb,
                                 FLAGS_fraction_of_gpu_memory_to_use))
    /\ UNCHANGED <<FLAGS_gpu_memory_limit_mb, driver, once_flag_, instances_,
                   nObjs, enumCalls, cur_size_, gpu_ptrs, mtx_, blocks, call,
                   nCalls, handed, missized, lastCommit, scn, last_error,
                   cur_device, handles, sizingFlags, exitVars,
                   counted>>

\* (variant: the first of the two sizes)
StdFirst(a, b) == a

\* std::max(a, b)
StdMax(a, b) == IF a < b THEN b ELSE a

\* a thread calls GpuMaxChunkSize()
StartChunk(t, maxCalls) ==
    /\ pc[t] = "idle"
    /\ nCalls < maxCalls
    /\ call' = [call EXCEPT ![t] = [NoCall EXCEPT !.op = "GpuMaxChunkSize"]]
    /\ nCalls' = nCalls + 1
    /\ Goto(t, "chunk_first")
    /\ loc' = [loc EXCEPT ![t] = [NoLoc EXCEPT !.amb = cur_device[t]]]
    /\ ret' = [ret EXCEPT ![t] = NoRet]
    /\ scn' = ScnOff
    /\ UNCHANGED <<FLAGS_gpu_memory_limit_mb, driver, once_flag_, instances_,
                   nObjs, enumCalls, cur_size_, gpu_ptrs, mtx_, blocks,
                   handed, missized, lastCommit, last_error, cur_device,
                   handles, sizingFlags, exitVars,
                   counted>>

\* the sizes read so far by a GpuMaxChunkSize call, as <<available_to_alloc
\* of GpuInitAllocSize, of GpuReallocSize>>; NotRead where the function was
\* not called
NotRead == 0 - 1
ChunkReads(realloc, available, other) ==
    IF realloc THEN <<other, available>> ELSE <<available, other>>

\* GpuMaxAllocSize(): std::max(GpuInitAllocSize(), GpuReallocSize()). The
\* two arguments are evaluated in either order (the language leaves it
\* open), each with its own answer of GpuAvailableMemToAlloc(); this step is
\* the one evaluated first. An exception of it ends the call.
MaxChunkFirst(t) ==
    /\ pc[t] = "chunk_first"
    /\ \E realloc \in BOOLEAN, available \in AvailChoices :
          LET r == GpuAllocSize(realloc, available,
                                FLAGS_initial_gpu_memory_in_mb,
                                FLAGS_reallocate_gpu_memory_in_mb,
                                FLAGS_fraction_of_gpu_memory_to_use)
          IN IF r.kind = "ResourceExhausted"
             THEN Return(t, [r EXCEPT !.mem =
                                ChunkReads(realloc, available, NotRead)])
             ELSE /\ loc' = [loc EXCEPT
                       ![t].result = IF realloc THEN "realloc" ELSE "init",
                       ![t].blk = r.val,
                       ![t].mem = <<available>>]
                  /\ Goto(t, "chunk_second")
                  /\ ret' = ret
    /\ UNCHANGED <<FLAGS_gpu_memory_limit_mb, driver, once_flag_, instances_,
                   nObjs, enumCalls, cur_size_, gpu_ptrs, mtx_, blocks, call,
                   nCalls, handed, missized, lastCommit, scn, last_error,
                   cur_device, handles, sizingFlags, exitVars,
                   counted>>

\* the argument evaluated second, std::max, and `return max_chunk_size` of
\* GpuMaxChunkSize(). mem = <<available_to_alloc of GpuInitAllocSize, of
\* GpuReallocSize>>.
MaxChunkSecond(t) ==
    /\ pc[t] = "chunk_second"
    /\ \E available \in AvailChoices :
          LET realloc == loc[t].result = "init"
              r == GpuAllocSize(realloc, available,
                                FLAGS_initial_gpu_memory_in_mb,
                                FLAGS_reallocate_gpu_memory_in_mb,
                                FLAGS_fraction_of_gpu_memory_to_use)
              reads == ChunkReads(realloc, available, loc[t].mem[1])
          IN IF r.kind = "ResourceExhausted"
             THEN Return(t, [r EXCEPT !.mem = reads])
             ELSE Return(t, [NoRet EXCEPT
                       !.kind = "Returned",
                       !.val = IF realloc THEN StdMax(loc[t].blk, r.val)
                               ELSE StdMax(r.val, loc[t].blk),
                       !.mem = reads])
    /\ UNCHANGED <<FLAGS_gpu_memory_limit_mb, driver, once_flag_, instances_,
                   nObjs, enumCalls, cur_size_, gpu_ptrs, mtx_, blocks, call,
                   nCalls, handed, missized, lastCommit, scn, last_error,
                   cur_device, handles, sizingFlags, exitVars,
                   counted>>

\* ---------------------------------------------------------- GetMemInfo
\* what *actual_total holds when the native query failed and did not write
\* it: whatever the caller's variable held
StaleChoices == {0, DeviceTotal}

\* cudaMemGetInfo(actual_avail, actual_total) under the device guard,
\* `if (result != gpuSuccess) *actual_avail = 0;` and
\* RaiseNonOutOfMemoryError(&result): out-of-memory passes as success,
\* another error is raised. The guard's scope ends before the step does.
MemInfoQuery(t) ==
    /\ pc[t] = "meminfo_query"
    /\ LET h == HelperOf(t)
           d == h.dev_id_
           next == IF NeedRecord(h) THEN "meminfo_lock" ELSE "meminfo_plain"
       IN \/ /\ driver = "up"
             /\ last_error' = GpuGetLastError(t)
             /\ IF RaisePasses("ok", last_error[t])
                THEN /\ loc' = [loc EXCEPT ![t].result = "ok",
                                  ![t].mem = <<DeviceTotal - LiveBytes(d),
                                               DeviceTotal>>]
                     /\ Goto(t, next)
                     /\ ret' = ret
                ELSE Return(t, [NoRet EXCEPT !.kind = "Fatal", !.obj = h.obj])
          \/ /\ driver = "up"
             /\ \E garbage \in StaleChoices :
                   loc' = [loc EXCEPT ![t].result = "oom",
                                      ![t].mem = <<0, garbage>>]
             /\ RaisePasses("oom", NativeError(t, "oom")[t])
             /\ last_error' = GpuGetLastError(t)
             /\ Goto(t, next)
             /\ ret' = ret
          \/ /\ Return(t, [NoRet EXCEPT !.kind = "Fatal", !.obj = h.obj])
             /\ last_error' = NativeError(t, "err")
    /\ UNCHANGED <<FLAGS_gpu_memory_limit_mb, driver, once_flag_, instances_,
                   nObjs, enumCalls, cur_size_, gpu_ptrs, mtx_, blocks, call,
                   nCalls,
                   handed, missized, lastCommit, scn>>
    /\ UNCHANGED <<cur_device, handles, sizingFlags, exitVars,
                   counted>>

\* (variant: the lock is taken without waiting for its holder)
LockFreeAlways(d, t) == TRUE

\* std::lock_guard<std::mutex> guard(*mtx_): blocks while another holds it
LockFree(d, t) == mtx_[d] = NoThread

\* (variant: the mutex stays locked at the return)
LockGuardKeep(d) == mtx_

\* the destructor of the lock_guard unlocks *mtx_ at the end of its block
LockGuardExit(d) == [mtx_ EXCEPT ![d] = NoThread]

MemInfoLock(t) ==
    /\ pc[t] = "meminfo_lock"
    /\ LockFree(DevOf(t), t)
    /\ mtx_' = [mtx_ EXCEPT ![DevOf(t)] = t]
    /\ Goto(t, "meminfo_avail")
    /\ UNCHANGED <<FLAGS_gpu_memory_limit_mb, driver, once_flag_, instances_,
                   nObjs, enumCalls, cur_size_, gpu_ptrs, blocks, call, loc,
                   ret, nCalls,
                   handed, missized, lastCommit, scn>>
    /\ UNCHANGED <<last_error, cur_device, handles, sizingFlags, exitVars,
                   counted>>

\* (variant: cur_size_.exchange(0) in place of cur_size_.load())
MemInfoAvailTakes(t) ==
    /\ pc[t] = "meminfo_avail"
    /\ LET h == HelperOf(t)
           headroom == (h.limit_size_ - cur_size_[h.dev_id_]) % Word
       IN loc' = [loc EXCEPT ![t].mem =
                     <<Min(loc[t].mem[1], headroom)>> \o loc[t].mem]
    /\ cur_size_' = [cur_size_ EXCEPT ![DevOf(t)] = 0]
    /\ Goto(t, "meminfo_total")
    /\ UNCHANGED <<FLAGS_gpu_memory_limit_mb, driver, once_flag_, instances_,
                   nObjs, enumCalls, gpu_ptrs, mtx_, blocks, call,
                   ret, nCalls,
                   handed, missized, lastCommit, scn>>
    /\ UNCHANGED <<last_error, cur_device, handles, sizingFlags, exitVars,
                   counted>>

\* *avail = std::min(*actual_avail, limit_size_ - cur_size_.load());
MemInfoAvail(t) ==
    /\ pc[t] = "meminfo_avail"
    /\ LET h == HelperOf(t)
           headroom == (h.limit_size_ - cur_size_[h.dev_id_]) % Word
       IN loc' = [loc EXCEPT ![t].mem =
                     <<Min(loc[t].mem[1], headroom)>> \o loc[t].mem]
    /\ Goto(t, "meminfo_total")
    /\ UNCHANGED <<FLAGS_gpu_memory_limit_mb, driver, once_flag_, instances_,
                   nObjs, enumCalls, cur_size_, gpu_ptrs, mtx_, blocks, call,
                   ret, nCalls,
                   handed, missized, lastCommit, scn>>
    /\ UNCHANGED <<last_error, cur_device, handles, sizingFlags, exitVars,
                   counted>>

\* *total = std::min(*actual_total, limit_size_); return *total <
\* *actual_total; the guard releases the mutex. mem = <<avail, total,
\* actual_avail, actual_total>>, val = 1 when the limit clamped the total.
MemInfoTotal(t) ==
    /\ pc[t] = "meminfo_total"
    /\ LET h == HelperOf(t)
           total == Min(loc[t].mem[3], h.limit_size_)
       IN Return(t, [NoRet EXCEPT
                 !.kind = "Returned",
                 !.obj = h.obj,
                 !.val = IF total < loc[t].mem[3] THEN 1 ELSE 0,
                 !.mem = <<loc[t].mem[1], total, loc[t].mem[2], loc[t].mem[3]>>])
    /\ mtx_' = LockGuardExit(DevOf(t))
    /\ UNCHANGED <<FLAGS_gpu_memory_limit_mb, driver, once_flag_, instances_,
                   nObjs, enumCalls, cur_size_, gpu_ptrs, blocks, call, nCalls,
                   handed, missized, lastCommit, scn>>
    /\ UNCHANGED <<last_error, cur_device, handles, sizingFlags, exitVars,
                   counted>>

\* the branch without recording: *avail = *actual_avail; *total =
\* *actual_total; return false;
MemInfoPlain(t) ==
    /\ pc[t] = "meminfo_plain"
    /\ Return(t, [NoRet EXCEPT
              !.kind = "Returned",
              !.obj = HelperOf(t).obj,
              !.mem = <<loc[t].mem[1], loc[t].mem[2],
                        loc[t].mem[1], loc[t].mem[2]>>])
    /\ UNCHANGED <<FLAGS_gpu_memory_limit_mb, driver, once_flag_, instances_,
                   nObjs, enumCalls, cur_size_, gpu_ptrs, mtx_, blocks, call,
                   nCalls,
                   handed, missized, lastCommit, scn>>
    /\ UNCHANGED <<last_error, cur_device, handles, sizingFlags, exitVars,
                   counted>>

\* ----------------------------------------------------------- accessors
\* (variant: lower_bound in place of upper_bound)
GetBasePtrLower(S, p) ==
    LET below == {x \in S : x < p}
    IN IF below = {} THEN NULL
       ELSE CHOOSE x \in below : \A y \in below : y <= x

\* auto it = gpu_ptrs.upper_bound(ptr); if (it == gpu_ptrs.begin()) return
\* nullptr; return *(--it);
GetBasePtr(S, p) ==
    LET below == {x \in S : x <= p}
    IN IF below = {} THEN NULL
       ELSE CHOOSE x \in below : \A y \in below : y <= x

\* the addresses GetBasePtr(p) can return: the predecessor, or, when the
\* lookup raced with an insert or erase, any address of the set or nullptr
LookupResults(t, S, p) ==
    IF IndexRaced(t) THEN S \cup {NULL} ELSE {GetBasePtr(S, p)}

\* RecordedSize(), LimitSize(), NeedRecord(), GetBasePtr(ptr)
Accessor(t) ==
    /\ pc[t] = "accessor"
    /\ LET h == HelperOf(t)
           d == h.dev_id_
           op == call[t].op
       IN \E base \in LookupResults(t, gpu_ptrs[d], call[t].ptr) :
          Return(t, [NoRet EXCEPT
                 !.kind = "Returned",
                 !.obj = h.obj,
                 !.val = CASE op = "RecordedSize" -> cur_size_[d]
                           [] op = "LimitSize" -> h.limit_size_
                           [] op = "NeedRecord" -> IF NeedRecord(h) THEN 1 ELSE 0
                           [] OTHER -> 0,
                 !.ptr = IF op = "GetBasePtr" THEN base ELSE NULL])
    /\ UNCHANGED <<FLAGS_gpu_memory_limit_mb, driver, once_flag_, instances_,
                   nObjs, enumCalls, cur_size_, gpu_ptrs, mtx_, blocks, call,
                   nCalls,
                   handed, missized, lastCommit, scn>>
    /\ UNCHANGED <<last_error, cur_device, handles, sizingFlags, exitVars,
                   counted>>

\* --------------------------------------------------------- environment
\* The device runtime starts to unload (process teardown).
DriverUnload ==
    /\ driver = "up"
    /\ driver' = "unloading"
    /\ UNCHANGED <<FLAGS_gpu_memory_limit_mb, once_flag_, instances_, nObjs,
                   enumCalls, cur_size_, gpu_ptrs, mtx_, blocks, pc, call, loc,
                   ret, nCalls,
                   handed, missized, lastCommit, scn>>
    /\ UNCHANGED <<last_error, cur_device, handles, sizingFlags, exitVars,
                   counted>>

\* FLAGS_gpu_memory_limit_mb is set (command line, environment) before the
\* first Instance() call reads it
SetLimitFlag ==
    /\ once_flag_ = "idle"
    /\ \A u \in Threads : pc[u] = "idle"
    /\ FLAGS_gpu_memory_limit_mb' \in LimitMBWide \ {FLAGS_gpu_memory_limit_mb}
    /\ UNCHANGED <<driver, once_flag_, instances_, nObjs, enumCalls, cur_size_,
                   gpu_ptrs, mtx_, blocks, pc, call, loc, ret, nCalls, handed,
                   missized, lastCommit, scn, last_error, cur_device, handles,
                   sizingFlags, exitVars,
                   counted>>

\* FLAGS_enable_gpu_memory_usage_log is set, at any time before the process
\* exits
SetLogFlag ==
    /\ exit_log = <<>>
    /\ FLAGS_enable_gpu_memory_usage_log' = ~FLAGS_enable_gpu_memory_usage_log
    /\ UNCHANGED <<FLAGS_gpu_memory_limit_mb, driver, once_flag_, instances_,
                   nObjs, enumCalls, cur_size_, gpu_ptrs, mtx_, blocks, pc,
                   call, loc, ret, nCalls, handed, missized, lastCommit, scn,
                   last_error, cur_device, handles, sizingFlags, exit_log,
                   counted>>

\* whether ~RecordedGpuMallocHelper() writes its "[Memory Usage ...] gpu
\* <dev_id_> : Reserved = ..., Allocated = ..." line
DtorPrints(h) == FLAGS_enable_gpu_memory_usage_log

\* devices whose helper has been destroyed
Destroyed == {exit_log[k].dev : k \in 1..Len(exit_log)}

\* Process exit: the static table instances_ is destroyed and with it each
\* helper (in an order the library chooses), once, when no call is in
\* flight.
Destroy ==
    /\ once_flag_ = "done"
    /\ \A u \in Threads : pc[u] = "idle"
    /\ \E i \in 1..Len(instances_) :
          /\ instances_[i].dev_id_ \notin Destroyed
          /\ exit_log' = Append(exit_log,
                             [dev |-> instances_[i].dev_id_,
                              printed |-> DtorPrints(instances_[i])])
    /\ UNCHANGED <<FLAGS_gpu_memory_limit_mb, driver, once_flag_, instances_,
                   nObjs, enumCalls, cur_size_, gpu_ptrs, mtx_, blocks, pc,
                   call, loc, ret, nCalls, handed, missized, lastCommit, scn,
                   last_error, cur_device, handles, sizingFlags,
                   FLAGS_enable_gpu_memory_usage_log, counted>>

\* SetDeviceId(device_id) called by a thread between its calls
SetDeviceId(t) ==
    /\ pc[t] = "idle"
    /\ \E d \in Devices \ {cur_device[t]} :
          cur_device' = [cur_device EXCEPT ![t] = d]
    /\ UNCHANGED <<FLAGS_gpu_memory_limit_mb, driver, once_flag_, instances_,
                   nObjs, enumCalls, cur_size_, gpu_ptrs, mtx_, blocks, pc,
                   call, loc, ret, nCalls, handed, missized, lastCommit, scn,
                   last_error, handles, sizingFlags, exitVars,
                   counted>>

\* the sizing flags are set (before or between calls)
SetSizingFlags ==
    /\ (\A u \in Threads : pc[u] = "idle")
    /\ FLAGS_initial_gpu_memory_in_mb' \in SizeMBChoices
    /\ FLAGS_reallocate_gpu_memory_in_mb' \in SizeMBChoices
    /\ FLAGS_fraction_of_gpu_memory_to_use' \in FractionChoices
    /\ UNCHANGED <<FLAGS_gpu_memory_limit_mb, driver, once_flag_, instances_,
                   nObjs, enumCalls, cur_size_, gpu_ptrs, mtx_, blocks, pc,
                   call, loc, ret, nCalls, handed, missized, lastCommit, scn,
                   last_error, cur_device, handles, exitVars, counted>>

\* ------------------------------------------------------- specifications
\* the steps of Instance(dev_id), and the caller taking the result
InstanceStep(t) ==
    \/ CallOnce(t)
    \/ InitEnum(t)
    \/ InitLoop(t)
    \/ Lookup(t)
    \/ Finish(t)

MallocStep(t) ==
    \/ MallocCheck(t)
    \/ MallocNative(t)
    \/ MallocResult(t)
    \/ MallocInsert(t)

FreeStep(t) ==
    \/ FreeNative(t)
    \/ FreeCommit(t)
    \/ FreeErase(t)

MemInfoStep(t) ==
    \/ MemInfoQuery(t)
    \/ MemInfoLock(t)
    \/ MemInfoAvail(t)
    \/ MemInfoTotal(t)
    \/ MemInfoPlain(t)

VmmStep(t) ==
    \/ MemCreateNative(t)
    \/ MemCreateResult(t)
    \/ MemReleaseNative(t)
    \/ MemReleaseResult(t)

AllIdle == \A t \in Threads : pc[t] = "idle"

\* Two threads, any call on any device ordinal, in any interleaving.
Next ==
    \/ \E t \in Callers :
          StartCall(t, AllOps, DevChoices, {50 * MB}, {SlotBase(1)}, MaxCalls)
    \/ \E t \in Callers : InstanceStep(t)
    \/ \E t \in Callers : MallocStep(t)
    \/ \E t \in Callers : FreeStep(t)
    \/ \E t \in Callers : MemInfoStep(t)
    \/ \E t \in Callers : Accessor(t)

Spec == Init /\ [][Next]_vars

\* All threads calling the accessors, which are Instance(dev_id) and a read,
\* on any device ordinal, from the first use of the table on.
NextInstance ==
    \/ \E t \in Threads :
          StartCall(t, {"RecordedSize", "LimitSize"}, DevChoices, {0}, {NULL},
                    MaxCalls)
    \/ \E t \in Threads : InstanceStep(t)
    \/ \E t \in Threads : Accessor(t)

SpecInstance == Init /\ [][NextInstance]_vars

\* Malloc and Free calls on device 0 made one after the other by one thread:
\* a call starts only when none is in flight.
NextSeq ==
    \/ /\ AllIdle
       /\ StartCall(1, {"Malloc", "Free"}, {0}, SizeChoices, PtrChoices,
                    MaxSeqCalls)
    \/ InstanceStep(1)
    \/ MallocStep(1)
    \/ FreeStep(1)
    \/ DriverUnload

SpecSeq == Init /\ [][NextSeq]_vars

\* Concurrent Malloc calls of all threads on device 0.
NextMalloc ==
    \/ \E t \in Threads :
          StartCall(t, {"Malloc"}, {0}, {50 * MB, 60 * MB}, {NULL}, MaxCalls)
    \/ \E t \in Threads : InstanceStep(t)
    \/ \E t \in Threads : MallocStep(t)

SpecMalloc == Init /\ [][NextMalloc]_vars

\* Concurrent GetMemInfo, Malloc and Free calls of all threads on device 0.
NextMemInfo ==
    \/ \E t \in Threads :
          StartCall(t, {"GetMemInfo", "Malloc", "Free"}, {0}, {50 * MB},
                    {SlotBase(1)}, MaxCalls)
    \/ \E t \in Threads : InstanceStep(t)
    \/ \E t \in Threads : MallocStep(t)
    \/ \E t \in Threads : FreeStep(t)
    \/ \E t \in Threads : MemInfoStep(t)
    \/ DriverUnload

SpecMemInfo == Init /\ [][NextMemInfo]_vars

\* Every operation of the helpers, on every device, called one after the
\* other by one thread that also changes its current device between calls.
NextVmm ==
    \/ /\ AllIdle
       /\ StartCall(1, AllOps \cup VmmOps, Devices, {60 * MB},
                    {NULL, SlotBase(1)}, MaxSeqCalls)
    \/ AllIdle /\ StartSizing(1, MaxSeqCalls)
    \/ GpuAllocSizeStep(1)
    \/ InstanceStep(1)
    \/ MallocStep(1)
    \/ FreeStep(1)
    \/ MemInfoStep(1)
    \/ VmmStep(1)
    \/ Accessor(1)
    \/ SetDeviceId(1)
    \/ DriverUnload

SpecVmm == Init /\ [][NextVmm]_vars

\* Malloc, Free and GetBasePtr on device 0, called one after the other.
NextBase ==
    \/ /\ AllIdle
       /\ StartCall(1, {"Malloc", "Free", "GetBasePtr"}, {0}, {0, 50 * MB},
                    QueryChoices, MaxSeqCalls)
    \/ InstanceStep(1)
    \/ MallocStep(1)
    \/ FreeStep(1)
    \/ Accessor(1)
    \/ DriverUnload

SpecBase == Init /\ [][NextBase]_vars

\* GpuInitAllocSize(), GpuReallocSize() and GpuMaxChunkSize() under every
\* setting of the flags and every answer of the device layer.
NextSizing ==
    \/ \E t \in Callers : StartSizing(t, MaxCalls)
    \/ \E t \in Callers : GpuAllocSizeStep(t)
    \/ \E t \in Callers : StartChunk(t, MaxCalls)
    \/ \E t \in Callers : MaxChunkFirst(t)
    \/ \E t \in Callers : MaxChunkSecond(t)
    \/ \E t \in Callers : Finish(t)
    \/ SetSizingFlags

SpecSizing == Init /\ [][NextSizing]_vars

\* The limit flag set to any value before first use, then Malloc calls and
\* the accessors on every device.
NextLimit ==
    \/ SetLimitFlag
    \/ \E t \in Callers :
          StartCall(t, {"Malloc", "LimitSize", "NeedRecord"}, Devices,
                    {50 * MB}, {NULL}, MaxCalls)
    \/ \E t \in Callers : InstanceStep(t)
    \/ \E t \in Callers : MallocStep(t)
    \/ \E t \in Callers : Accessor(t)

SpecLimit == Init /\ [][NextLimit]_vars

\* One Malloc or Free call per thread on device 0, the calls of all threads
\* interleaved in every way; each thread keeps the result of its call.
NextRace ==
    \/ \E t \in Threads :
          StartCall(t, {"Malloc", "Free"}, {0}, {50 * MB},
                    {SlotBase(1), SlotBase(2)}, NumThreads)
    \/ \E t \in Threads : CallOnce(t)
    \/ \E t \in Threads : InitEnum(t)
    \/ \E t \in Threads : InitLoop(t)
    \/ \E t \in Threads : Lookup(t)
    \/ \E t \in Threads : MallocStep(t)
    \/ \E t \in Threads : FreeStep(t)
    \/ DriverUnload

SpecRace == Init /\ [][NextRace]_vars

\* the steps of thread t that are a native allocation or a native free
NativeStep(t) == MallocNative(t) \/ FreeNative(t)

\* every other step of a call of thread t
HostStep(t) ==
    \/ CallOnce(t)
    \/ InitEnum(t)
    \/ InitLoop(t)
    \/ Lookup(t)
    \/ MallocCheck(t)
    \/ MallocResult(t)
    \/ MallocInsert(t)
    \/ FreeCommit(t)
    \/ FreeErase(t)
    \/ MemInfoStep(t)
    \/ Accessor(t)

\* Two threads, one call of Malloc, Free, GetMemInfo or an accessor per
\* thread of them (in all), on every device.
\* The scheduler lets every thread that can take a step of host code, or
\* the memory query, take it; a native allocation or free may take forever.
NextLive ==
    \/ \E t \in Callers :
          StartCall(t, {"Malloc", "Free", "GetMemInfo", "LimitSize"}, Devices,
                    {50 * MB}, {SlotBase(1)}, NumThreads - 1)
    \/ \E t \in Callers : InstanceStep(t)
    \/ \E t \in Callers : MallocStep(t)
    \/ \E t \in Callers : FreeStep(t)
    \/ \E t \in Callers : MemInfoStep(t)
    \/ \E t \in Callers : Accessor(t)

SpecLive ==
    /\ Init
    /\ [][NextLive]_vars
    /\ \A t \in Callers : WF_vars(HostStep(t))

\* Calls of two threads on every device, the logging flag set or cleared at
\* any time, then the exit of the process.
NextExit ==
    \/ SetLogFlag
    \/ /\ exit_log = <<>>
       /\ \E t \in Callers :
             StartCall(t, {"Malloc", "LimitSize"}, Devices, {50 * MB}, {NULL},
                       MaxCalls)
    \/ \E t \in Callers : InstanceStep(t)
    \/ \E t \in Callers : MallocStep(t)
    \/ \E t \in Callers : Accessor(t)
    \/ Destroy

SpecExit == Init /\ [][NextExit]_vars

\* ------------------------------------------------------------ properties
Built == once_flag_ = "done"
Limit(d) == instances_[TableIndex(d)].limit_size_
\* no call is in flight: every thread is between calls or holds a result
Quiescent == \A t \in Threads : pc[t] \in {"idle", "done"}
\* thread t took a step
Acted(t) == pc'[t] # pc[t] \/ loc'[t] # loc[t]

\* C1 (as stated, for callers that pass Free the size of the block): on a
\* device with limit L > 0, whenever no Malloc or Free call is in flight,
\* cur_size_ is the sum of the sizes of the blocks handed out and not yet
\* freed, and cur_size_ <= L.
C1_Original ==
    \A d \in Devices :
        (Quiescent /\ Built /\ Limit(d) > 0 /\ ~missized[d])
            => (cur_size_[d] = LiveBytes(d) /\ cur_size_[d] <= Limit(d))

\* C1 (amended): the same while the device runtime is up (a Free that meets
\* the unloading runtime leaves cur_size_ as it is), for callers that pass
\* Free the size of the block.
C1_Accounting ==
    \A d \in Devices :
        (Quiescent /\ Built /\ Limit(d) > 0 /\ ~missized[d] /\ driver = "up")
            => (cur_size_[d] = LiveBytes(d) /\ cur_size_[d] <= Limit(d))

\* one block is left after two allocations and the free of the other
C1_Witness ==
    /\ Built /\ Limit(0) > 0 /\ ~missized[0] /\ driver = "up"
    /\ pc[1] = "done" /\ call[1].op = "Free" /\ ret[1].kind = "Returned"
    /\ ret[1].blk = 50 * MB /\ call[1].size = 50 * MB
    /\ cur_size_[0] = 50 * MB /\ LiveBytes(0) = 50 * MB

\* C2 (as stated, for callers that pass Free the size of the block): with
\* recording enabled, a Malloc whose size makes cur_size_ + size exceed the
\* limit (as numbers) returns OutOfMemory.
C2_OverLimitRejected ==
    \A t \in Threads :
        (pc[t] = "done" /\ call[t].op = "Malloc" /\ ret[t].over
         /\ ~missized[call[t].dev])
            => ret[t].kind = "OutOfMemory"

\* C3 (as stated): a Free of a live block whose native free succeeds lowers
\* cur_size_ by the size of that block, whatever size the caller passes.
C3_Original ==
    [][\A t \in Threads :
        (pc[t] = "free_commit" /\ loc[t].result = "ok" /\ loc[t].blk > 0
         /\ Acted(t))
            => cur_size_'[DevOf(t)]
                 = (cur_size_[DevOf(t)] - loc[t].blk) % Word]_vars

\* C3 (amended): a Free of a live block whose native free succeeds lowers
\* cur_size_ (modulo the word) by the size argument of the call, which is
\* the size of the block when the caller passes that size, and returns
\* normally.
C3_FreeSubtractsArgument ==
    [][\A t \in Threads :
        /\ (pc[t] = "free_commit" /\ loc[t].result = "ok" /\ loc[t].blk > 0
            /\ Acted(t))
              => /\ cur_size_'[DevOf(t)]
                      = (cur_size_[DevOf(t)] - call[t].size) % Word
                 /\ call[t].size = loc[t].blk
                      => cur_size_'[DevOf(t)]
                           = (cur_size_[DevOf(t)] - loc[t].blk) % Word
                 /\ pc'[t] = "free_erase"
        /\ (pc[t] = "free_erase" /\ Acted(t))
              => (pc'[t] = "done" /\ ret'[t].kind = "Returned")]_vars

\* a 60 MB block was freed with a size argument of 50 MB
C3_Witness ==
    /\ pc[1] = "done" /\ call[1].op = "Free" /\ ret[1].kind = "Returned"
    /\ ret[1].at = "ok" /\ ret[1].blk = 60 * MB /\ call[1].size = 50 * MB
    /\ cur_size_[0] = 10 * MB

\* C4 (as stated): with recording enabled, under concurrent Malloc calls,
\* cur_size_ exceeds the limit by at most the smallest request among the
\* calls that were past the limit check together with the call that added
\* last.
C4_Original ==
    \A d \in Devices :
        (Built /\ Limit(d) > 0 /\ cur_size_[d] > Limit(d))
            => cur_size_[d] - Limit(d) <= lastCommit[d].gmin

\* C4 (amended): cur_size_ exceeds the limit by at most the bytes that other
\* Malloc calls added between the limit check and the fetch_add of the call
\* that added last.
C4_OvershootBound ==
    \A d \in Devices :
        (Built /\ Limit(d) > 0)
            => cur_size_[d] <= Limit(d) + lastCommit[d].delta

\* three calls passed the check of a 100 MB limit before any of them added
C4_Witness ==
    /\ Built /\ Limit(0) = 100 * MB
    /\ cur_size_[0] = 160 * MB
    /\ lastCommit[0].gmin = 50 * MB

\* C5: Instance(d) for a valid ordinal d returns an allocator, the same one
\* at every call from every thread, and the device count is read and the
\* table is filled once.
C5_SameInstanceOnce ==
    /\ enumCalls <= 1
    /\ nObjs <= NumDevices
    /\ \A x \in handed, y \in handed : x[1] = y[1] => x[2] = y[2]
    /\ handed # {} => (enumCalls = 1 /\ nObjs = NumDevices)
    /\ \A t \in Threads :
          (pc[t] = "done" /\ call[t].dev \in Devices)
              => (ret[t].kind # "OutOfRange"
                  /\ <<call[t].dev, ret[t].obj>> \in handed)

\* all three threads hold the allocator of ordinal 1 from concurrent calls
C5_Witness ==
    /\ \A t \in Threads :
          pc[t] = "done" /\ call[t].dev = 1 /\ ret[t].obj = 2
    /\ nCalls = NumThreads

\* the positions of a call past std::call_once
PastCallOnce(t) ==
    \/ pc[t] \in {"lookup", "accessor", "malloc_check", "malloc_native",
                  "malloc_result", "malloc_insert", "free_native",
                  "free_commit", "free_erase", "meminfo_query",
                  "meminfo_lock", "meminfo_avail", "meminfo_total",
                  "meminfo_plain"}
    \/ pc[t] = "done"

\* C6: at most one thread runs the initializer, and no call is past
\* std::call_once (reads the table, holds or returns an allocator) unless
\* the initializer has completed and the table holds deviceCount helpers.
C6_InitExclusive ==
    /\ Cardinality({t \in Threads : pc[t] \in {"init_enum", "init_loop"}}) <= 1
    /\ \A t \in Threads :
          PastCallOnce(t) => (Built /\ Len(instances_) = NumDevices)
    /\ \A t \in Threads :
          pc[t] \in {"init_enum", "init_loop"} => once_flag_ = "running"

\* two callers wait at call_once while the third has filled half the table
C6_Witness ==
    /\ once_flag_ = "running"
    /\ Len(instances_) = 1
    /\ Cardinality({t \in Threads : pc[t] = "call_once"}) = 2

\* C7: a call with a device ordinal < 0 or >= deviceCount only runs
\* Instance, ends with OutOfRange, never reaches a native call, and its
\* steps leave every counter, address set and block of the driver unchanged.
C7_OutOfRange ==
    /\ [](\A t \in Threads :
            (pc[t] # "idle" /\ call[t].dev \notin Devices)
                => /\ pc[t] \in {"call_once", "init_enum", "init_loop",
                                  "lookup", "done"}
                   /\ pc[t] = "done" => ret[t].kind = "OutOfRange")
    /\ [][\A t \in Threads :
            (pc[t] # "idle" /\ call[t].dev \notin Devices /\ Acted(t))
                => UNCHANGED <<cur_size_, gpu_ptrs, blocks>>]_vars

\* Malloc on ordinal -1 and Free on ordinal deviceCount have ended
C7_Witness ==
    /\ pc[1] = "done" /\ call[1].op = "Malloc" /\ call[1].dev = 0 - 1
    /\ ret[1].kind = "OutOfRange"
    /\ pc[2] = "done" /\ call[2].op = "Free" /\ call[2].dev = NumDevices
    /\ ret[2].kind = "OutOfRange"

\* a GetMemInfo call that has made its native query and has not returned
InMemInfo(t) == pc[t] \in {"meminfo_lock", "meminfo_avail", "meminfo_total"}
\* a GetMemInfo call in the part it runs under the lock guard
InLocked(t) == pc[t] \in {"meminfo_avail", "meminfo_total"}

\* C8 (as stated): with recording enabled, no two GetMemInfo calls on a
\* device are between their native query and their return at the same time.
C8_Original ==
    \A t \in Threads, u \in Threads :
        (t # u /\ InMemInfo(t) /\ InMemInfo(u)) => DevOf(t) # DevOf(u)

\* C8 (amended): the part of GetMemInfo under the lock guard (the read of
\* cur_size_, the comparisons with the limit and the return) is run by one
\* thread per device at a time, which holds the mutex; the native queries
\* precede the lock.
C8_LockedSectionExclusive ==
    /\ \A t \in Threads, u \in Threads :
          (t # u /\ InLocked(t) /\ InLocked(u)) => DevOf(t) # DevOf(u)
    /\ \A t \in Threads : InLocked(t) => mtx_[DevOf(t)] = t

\* one call computes under the lock while two wait for it
C8_Witness ==
    /\ pc[1] = "meminfo_total"
    /\ pc[2] = "meminfo_lock" /\ pc[3] = "meminfo_lock"
    /\ mtx_[0] = 1

\* the results of scenario A, and cur_size_ after each of its calls
ScnKind(k) ==
    CASE k = 1 -> "Success"
      [] k = 2 -> "OutOfMemory"
      [] k = 3 -> "Returned"
      [] OTHER -> "Success"
ScnCur(k) ==
    CASE k = 1 -> 60 * MB
      [] k = 2 -> 60 * MB
      [] k = 3 -> 0
      [] OTHER -> 50 * MB

\* C9: with a limit of 100 MB and native calls that succeed, the calls of
\* scenario A made from the start end with Success, OutOfMemory, a normal
\* return and Success, and leave cur_size_ at 60 MB, 60 MB, 0 and 50 MB.
C9_ScenarioA ==
    \A t \in Threads :
        (/\ pc[t] = "done"
         /\ scn.k >= 0
         /\ FLAGS_gpu_memory_limit_mb = 100
         /\ ~NativeFailed(ret[t]))
            => /\ ret[t].kind = ScnKind(scn.k + 1)
               /\ cur_size_[0] = ScnCur(scn.k + 1)
               /\ Limit(0) = 100 * MB

\* the fourth call of the scenario has ended
C9_Witness ==
    /\ pc[1] = "done" /\ scn.k = 3
    /\ FLAGS_gpu_memory_limit_mb = 100
    /\ ret[1].kind = "Success"

\* C10: on a helper with limit 0 every Malloc reaches the native call; its
\* result, OutOfMemory included, is that of the native call.
C10_UnlimitedBypass ==
    /\ \A t \in Threads :
          (pc[t] = "done" /\ call[t].op = "Malloc" /\ ret[t].obj # 0
           /\ instances_[ret[t].obj].limit_size_ = 0)
              => ret[t].at = "native"
    /\ \A t \in Threads :
          (pc[t] = "malloc_native" /\ HelperOf(t).limit_size_ = 0)
              => ~loc[t].over

\* an unlimited device with 120 MB recorded answers OutOfMemory to a request
\* larger than its memory, from the native call
C10_Witness ==
    /\ pc[1] = "done" /\ call[1].op = "Malloc" /\ call[1].size = Huge
    /\ FLAGS_gpu_memory_limit_mb = 0
    /\ cur_size_[0] = 120 * MB
    /\ ret[1].kind = "OutOfMemory" /\ ret[1].at = "native"

\* C11: when the native allocation reports out-of-memory, Malloc returns
\* OutOfMemory (it does not raise), the last-error flag of the thread is
\* clear at the return, and neither the native call nor the return changes
\* cur_size_ or gpu_ptrs.
C11_NativeOom ==
    [][\A t \in Threads :
        /\ (pc[t] = "malloc_native" /\ Acted(t) /\ loc'[t].result = "oom")
              => UNCHANGED <<cur_size_, gpu_ptrs>>
        /\ (pc[t] = "malloc_result" /\ Acted(t) /\ loc[t].result = "oom")
              => /\ pc'[t] = "done"
                 /\ ret'[t].kind = "OutOfMemory"
                 /\ last_error'[t] = "none"
                 /\ UNCHANGED <<cur_size_, gpu_ptrs>>]_vars

\* a second 50 MB request met out-of-memory in the driver
C11_Witness ==
    /\ pc[1] = "done" /\ call[1].op = "Malloc"
    /\ ret[1].kind = "OutOfMemory" /\ ret[1].at = "native"
    /\ last_error[1] = "none"
    /\ cur_size_[0] = 50 * MB /\ gpu_ptrs[0] # {}

\* C12: Malloc hands its caller Success or OutOfMemory and nothing else;
\* when the native allocation reports another code than success and
\* out-of-memory the call ends in the raised (fatal) state without a result
\* and without adding to cur_size_.
C12_OnlySuccessOrOom ==
    [][\A t \in Threads :
        (call[t].op = "Malloc" /\ pc[t] # "done" /\ pc'[t] = "done"
         /\ ret'[t].kind # "OutOfRange")
            => /\ ret'[t].kind \in {"Success", "OutOfMemory", "Fatal"}
               /\ (pc[t] = "malloc_result" /\ loc[t].result = "err")
                     <=> ret'[t].kind = "Fatal"
               /\ ret'[t].kind = "Fatal" => cur_size_' = cur_size_]_vars

\* the native allocation of a second block reported another error
C12_Witness ==
    /\ pc[1] = "done" /\ call[1].op = "Malloc"
    /\ ret[1].kind = "Fatal" /\ ret[1].at = "native"
    /\ driver = "up"
    /\ cur_size_[0] = 50 * MB /\ LiveBytes(0) = 50 * MB

\* C13: when the native free reports that the runtime is unloading, Free
\* returns normally, the last-error flag of the thread is clear at the
\* return, and cur_size_ is as it was.
C13_UnloadingFree ==
    [][\A t \in Threads :
        /\ (pc[t] = "free_commit" /\ Acted(t)
            /\ loc[t].result = "unloading")
              => /\ pc'[t] = "free_erase"
                 /\ last_error'[t] = "none"
                 /\ cur_size_' = cur_size_
        /\ (pc[t] = "free_erase" /\ Acted(t)
            /\ loc[t].result = "unloading")
              => /\ pc'[t] = "done"
                 /\ ret'[t].kind = "Returned"
                 /\ last_error'[t] = "none"
                 /\ cur_size_' = cur_size_]_vars

\* a 50 MB block was freed while the runtime unloads
C13_Witness ==
    /\ pc[1] = "done" /\ call[1].op = "Free"
    /\ ret[1].kind = "Returned" /\ ret[1].at = "unloading"
    /\ ret[1].blk = 50 * MB /\ call[1].size = 50 * MB
    /\ last_error[1] = "none"
    /\ cur_size_[0] = 50 * MB

\* C14: when the native free reports another code than success and
\* unloading, Free ends in the raised (fatal) state, it does not return,
\* and cur_size_ is not lowered.
C14_FreeFatal ==
    [][\A t \in Threads :
        (pc[t] = "free_commit" /\ Acted(t) /\ loc[t].result = "err")
            => /\ pc'[t] = "done"
               /\ ret'[t].kind = "Fatal"
               /\ cur_size_' = cur_size_]_vars

\* the free of a live 50 MB block failed in the driver
C14_Witness ==
    /\ pc[1] = "done" /\ call[1].op = "Free"
    /\ ret[1].kind = "Fatal" /\ ret[1].at = "err"
    /\ call[1].ptr \in {b.base : b \in blocks[0]}
    /\ cur_size_[0] = 50 * MB

\* C15: GetMemInfo returns the reference result: on a recording helper
\* avail = min(actual_avail, limit_size_ - cur_size_) (the difference as a
\* number), total = min(actual_total, limit_size_) and the flag returned is
\* total < actual_total; on a helper with limit 0 avail = actual_avail,
\* total = actual_total and the flag is false (stated for callers that pass
\* Free the size of the block). mem = <<avail, total, actual_avail,
\* actual_total>>.
C15_ReferenceResult ==
    \A t \in Threads :
        (pc[t] = "done" /\ call[t].op = "GetMemInfo"
         /\ ret[t].kind = "Returned" /\ ~missized[call[t].dev])
            => LET m == ret[t].mem
                   L == Limit(call[t].dev)
                   cur == cur_size_[call[t].dev]
               IN IF L # 0
                  THEN /\ m[1] = Min(m[3], L - cur)
                       /\ m[2] = Min(m[4], L)
                       /\ ret[t].val = (IF m[2] < m[4] THEN 1 ELSE 0)
                  ELSE /\ m[1] = m[3]
                       /\ m[2] = m[4]
                       /\ ret[t].val = 0

\* base addresses of the blocks of device d handed out and not freed
LiveBases(d) == {b.base : b \in blocks[d]}

\* C16: GetBasePtr of the base address of a block that a Malloc returned
\* and no Free has released returns that address, whatever other Malloc and
\* Free calls were made.
C16_RoundTrip ==
    \A t \in Threads :
        (pc[t] = "done" /\ call[t].op = "GetBasePtr"
         /\ ret[t].kind = "Returned"
         /\ call[t].ptr \in LiveBases(call[t].dev))
            => ret[t].ptr = call[t].ptr

\* the second of two live blocks is looked up after a block was freed
C16_Witness ==
    /\ pc[1] = "done" /\ call[1].op = "GetBasePtr"
    /\ call[1].ptr = SlotBase(2) /\ ret[1].ptr = SlotBase(2)
    /\ LiveBases(0) = {SlotBase(2)}
    /\ nCalls = MaxSeqCalls

\* C17: GetBasePtr(q) returns the largest base address <= q among the
\* blocks handed out and not freed, and null exactly when there is none;
\* the base of a freed block is not returned.
C17_Predecessor ==
    \A t \in Threads :
        (pc[t] = "done" /\ call[t].op = "GetBasePtr"
         /\ ret[t].kind = "Returned")
            => LET below == {b \in LiveBases(call[t].dev) : b <= call[t].ptr}
               IN /\ below = {} <=> ret[t].ptr = NULL
                  /\ below # {} =>
                        /\ ret[t].ptr \in below
                        /\ \A b \in below : b <= ret[t].ptr

\* an address above a freed block and a live block below it
C17_Witness ==
    /\ pc[1] = "done" /\ call[1].op = "GetBasePtr"
    /\ call[1].ptr = SlotBase(2) + MB /\ ret[1].ptr = SlotBase(1)
    /\ LiveBases(0) = {SlotBase(1)}
    /\ nCalls = MaxSeqCalls

\* the operation whose step changed cur_size_ of device d, if any did
ChangedBy(d, ops) ==
    cur_size_'[d] # cur_size_[d]
        => \E t \in Threads : Acted(t) /\ call[t].op \in ops

\* C18 (as stated): cur_size_ of a device changes only in steps of Malloc
\* and Free calls; GetMemInfo, the accessors, Instance, MemCreate,
\* MemRelease and the sizing functions leave it as it is.
C18_Original ==
    [][\A d \in Devices : ChangedBy(d, {"Malloc", "Free"})]_vars

\* C18 (amended): cur_size_ of a device changes only in the fetch_add /
\* fetch_sub steps of Malloc, Free, MemCreate and MemRelease calls on that
\* device; GetMemInfo, the accessors, Instance and the sizing functions
\* leave it as it is.
C18_OnlyAllocPaths ==
    [][\A d \in Devices :
        /\ ChangedBy(d, {"Malloc", "Free", "MemCreate", "MemRelease"})
        /\ cur_size_'[d] # cur_size_[d]
              => \E t \in Threads :
                    /\ pc[t] \in {"malloc_result", "free_commit",
                                   "memcreate_result", "memrelease_result"}
                    /\ pc'[t] # pc[t]
                    /\ DevOf(t) = d]_vars

\* GetMemInfo has returned on a device whose counter two MemCreate raised
C18_Witness ==
    /\ pc[1] = "done" /\ call[1].op = "GetMemInfo" /\ call[1].dev = 0
    /\ ret[1].kind = "Returned"
    /\ Cardinality(handles) = 2
    /\ cur_size_[0] = 120 * MB

\* C19: the native allocation and the native free of every Malloc and Free
\* call run with the helper's dev_id_ as current device, and on every exit
\* of the call (rejection at the limit check, success, native
\* out-of-memory, unloading, a raised error) the current device of the
\* thread is the one it was when the call began.
C19_DeviceScoped ==
    \A t \in Threads :
        /\ pc[t] = "malloc_native" => cur_device[t] = DevOf(t)
        /\ pc[t] \in {"malloc_result", "free_commit"}
              => loc[t].ndev = DevOf(t)
        /\ (pc[t] = "done" /\ call[t].op \in {"Malloc", "Free"})
              => cur_device[t] = ret[t].amb

\* a Free on device 0 called with device 1 current has raised an error
C19_Witness ==
    /\ pc[1] = "done" /\ call[1].op = "Free" /\ call[1].dev = 0
    /\ ret[1].kind = "Fatal" /\ ret[1].at = "err"
    /\ ret[1].amb = 1 /\ cur_device[1] = 1

SizingOps == {"GpuInitAllocSize", "GpuReallocSize"}

\* C20: GpuInitAllocSize and GpuReallocSize raise ResourceExhausted exactly
\* when available_to_alloc is 0 or alloc_bytes exceeds available_to_alloc,
\* and a size they return is alloc_bytes and is <= the available_to_alloc
\* that was read. mem = <<available_to_alloc, alloc_bytes>>.
C20_ReserveGuard ==
    \A t \in Threads :
        (pc[t] = "done" /\ call[t].op \in SizingOps)
            => LET available == ret[t].mem[1]
                   alloc_bytes == ret[t].mem[2]
               IN /\ ret[t].kind \in {"ResourceExhausted", "Returned"}
                  /\ ret[t].kind = "ResourceExhausted"
                        <=> (available = 0 \/ alloc_bytes > available)
                  /\ ret[t].kind = "Returned"
                        => (ret[t].val = alloc_bytes
                            /\ ret[t].val <= available)

\* a fixed reserve of 100 MB is returned when exactly 100 MB are available
C20_Witness ==
    /\ pc[1] = "done" /\ call[1].op = "GpuReallocSize"
    /\ FLAGS_reallocate_gpu_memory_in_mb = 100
    /\ ret[1].kind = "Returned" /\ ret[1].val = 100 * MB
    /\ ret[1].mem[1] = 100 * MB

\* the override flag (MB) the sizing call of thread t reads
OverrideMB(t) ==
    IF call[t].op = "GpuReallocSize" THEN FLAGS_reallocate_gpu_memory_in_mb
    ELSE FLAGS_initial_gpu_memory_in_mb

\* C21 (as stated): in GpuInitAllocSize / GpuReallocSize, a nonzero override
\* flag makes the computed reserve flag_mb * 2^20 bytes (as a number),
\* whatever the fraction is; with the flag 0 the reserve is the fraction of
\* the available bytes. mem = <<available_to_alloc, alloc_bytes>>.
C21_OverrideExact ==
    \A t \in Threads :
        (pc[t] = "done" /\ call[t].op \in SizingOps /\ ret[t].mem[1] > 0)
            => LET available == ret[t].mem[1]
                   pct == FLAGS_fraction_of_gpu_memory_to_use
               IN IF OverrideMB(t) # 0
                  THEN ret[t].mem[2] = OverrideMB(t) * (2^20)
                  ELSE ret[t].mem[2] = (available \div 100) * pct
                                         + ((available % 100) * pct) \div 100

\* what GpuAllocSize(realloc) gives under the flags of the state when
\* GpuAvailableMemToAlloc() answers `available`
SizeFor(realloc, available) ==
    GpuAllocSize(realloc, available, FLAGS_initial_gpu_memory_in_mb,
                 FLAGS_reallocate_gpu_memory_in_mb,
                 FLAGS_fraction_of_gpu_memory_to_use)

\* C22: GpuMaxChunkSize() returns the larger of what GpuInitAllocSize() and
\* GpuReallocSize() returned to it, each computed from its own reading of
\* the available memory, and it raises ResourceExhausted exactly when one of
\* the two it called raised it. mem = <<available_to_alloc read by
\* GpuInitAllocSize, read by GpuReallocSize>>.
C22_MaxOfBoth ==
    \A t \in Threads :
        (pc[t] = "done" /\ call[t].op = "GpuMaxChunkSize")
            => LET ai == ret[t].mem[1]
                   ar == ret[t].mem[2]
                   failed_i == ai # NotRead
                               /\ SizeFor(FALSE, ai).kind = "ResourceExhausted"
                   failed_r == ar # NotRead
                               /\ SizeFor(TRUE, ar).kind = "ResourceExhausted"
               IN /\ ret[t].kind \in {"ResourceExhausted", "Returned"}
                  /\ ret[t].kind = "ResourceExhausted" <=> (failed_i \/ failed_r)
                  /\ ret[t].kind = "Returned" =>
                        /\ ai # NotRead /\ ar # NotRead
                        /\ ret[t].val >= SizeFor(FALSE, ai).val
                        /\ ret[t].val >= SizeFor(TRUE, ar).val
                        /\ ret[t].val \in {SizeFor(FALSE, ai).val,
                                           SizeFor(TRUE, ar).val}

\* the available memory fell from 100 MB to 50 MB between the two reads and
\* the result is the half of the first reading
C22_Witness ==
    /\ pc[1] = "done" /\ call[1].op = "GpuMaxChunkSize"
    /\ ret[1].kind = "Returned"
    /\ ret[1].mem = <<100 * MB, 50 * MB>>
    /\ FLAGS_initial_gpu_memory_in_mb = 0
    /\ FLAGS_reallocate_gpu_memory_in_mb = 0
    /\ ret[1].val = 50 * MB

\* a Malloc of 0 bytes, or the Free of what it returned (a null pointer)
\* with size 0
ZeroSizeCall(t) ==
    /\ call[t].size = 0
    /\ \/ call[t].op = "Malloc"
       \/ call[t].op = "Free" /\ call[t].ptr = NULL

\* C23: no step of a Malloc of 0 bytes, and no step of the Free (size 0) of
\* the null pointer it returned, changes cur_size_ or the blocks handed out
\* and not freed, so cur_size_ is the sum of their sizes after the call if
\* it was before.
C23_ZeroSize ==
    [][\A t \in Threads :
        (Acted(t) /\ ZeroSizeCall(t))
            => /\ UNCHANGED <<cur_size_, blocks>>
               /\ \A d \in Devices :
                     cur_size_[d] = LiveBytes(d)
                        => cur_size_'[d] = LiveBytes(d)']_vars

\* the zero-size block is being freed while a 50 MB block is live
C23_Witness ==
    /\ pc[1] = "free_erase" /\ call[1].op = "Free"
    /\ call[1].ptr = NULL /\ call[1].size = 0
    /\ loc[1].result = "ok"
    /\ NULL \in gpu_ptrs[0]
    /\ cur_size_[0] = 50 * MB /\ LiveBytes(0) = 50 * MB

\* the positions of a Malloc call past its limit check
PastLimitCheck(t) ==
    pc[t] \in {"malloc_native", "malloc_result", "malloc_insert"}

\* C24 (as stated, for callers that pass Free the size of the block): with
\* recording enabled, a Malloc for which cur_size_ + size exceeds the limit
\* as numbers does not get past the limit check (the native allocator is not
\* called) and returns OutOfMemory from the check.
C24_NoWrap ==
    \A t \in Threads :
        ~missized[call[t].dev] =>
            /\ PastLimitCheck(t) => ~loc[t].over
            /\ (pc[t] = "done" /\ call[t].op = "Malloc" /\ ret[t].over)
                  => (ret[t].kind = "OutOfMemory" /\ ret[t].at = "limit_check")

\* C25 (as stated): the limit of every helper is FLAGS_gpu_memory_limit_mb *
\* 2^20 bytes (as a number), and a nonzero flag gives a helper that records.
\* (The flag is not changed once Instance() has begun to build the table.)
C25_LimitExact ==
    Built =>
        \A i \in 1..Len(instances_) :
            /\ instances_[i].limit_size_ = FLAGS_gpu_memory_limit_mb * (2^20)
            /\ FLAGS_gpu_memory_limit_mb # 0 => instances_[i].limit_size_ # 0

\* the sum of the size arguments of the calls of the threads in S
SumSizes(S) ==
    LET RECURSIVE Sum(_)
        Sum(T) == IF T = {} THEN 0
                  ELSE LET u == CHOOSE x \in T : TRUE
                       IN call[u].size + Sum(T \ {u})
    IN Sum(S)

\* threads whose Malloc on device d returned Success, and threads whose Free
\* on device d returned after a native free that succeeded
Allocated(d) ==
    {t \in Threads : pc[t] = "done" /\ call[t].op = "Malloc"
                     /\ call[t].dev = d /\ ret[t].kind = "Success"}
Freed(d) ==
    {t \in Threads : pc[t] = "done" /\ call[t].op = "Free"
                     /\ call[t].dev = d /\ ret[t].kind = "Returned"
                     /\ ret[t].at = "ok"}

\* C26: when the concurrent Malloc and Free calls of the threads (one call
\* each) have all completed, cur_size_ is the sum of the sizes of the Malloc
\* calls that returned Success minus the sum of the sizes of the Free calls
\* whose native free succeeded: modulo the word in every case, and as a
\* number when every Free passed the size of the block it released.
C26_NoLostUpdate ==
    \A d \in Devices :
        (Quiescent /\ Built)
            => /\ cur_size_[d]
                    = (SumSizes(Allocated(d)) - SumSizes(Freed(d))) % Word
               /\ ~missized[d]
                    => cur_size_[d]
                         = SumSizes(Allocated(d)) - SumSizes(Freed(d))

\* two Malloc calls that were past the limit check together and a Free of
\* one of the blocks have completed
C26_Witness ==
    /\ \A t \in Threads : pc[t] = "done"
    /\ Cardinality(Allocated(0)) = 2 /\ Cardinality(Freed(0)) = 1
    /\ ~missized[0]
    /\ lastCommit[0].delta > 0
    /\ cur_size_[0] = 50 * MB

\* the positions of a call at or inside a native call of the device runtime
\* (allocation, free, memory query) and up to the use of its result
InNative(t) ==
    pc[t] \in {"malloc_native", "malloc_result", "free_native", "free_commit",
               "meminfo_query"}

\* C27: a thread that holds the mutex of a helper is in the part of
\* GetMemInfo that computes the result; no thread holds a mutex while it is
\* in Malloc or Free, at or inside their native calls in particular.
C27_NoLockInNative ==
    \A t \in Threads, d \in Devices :
        /\ mtx_[d] = t => pc[t] \in {"meminfo_avail", "meminfo_total"}
        /\ InNative(t) => mtx_[d] # t
        /\ call[t].op \in {"Malloc", "Free"} => mtx_[d] # t

\* one thread computes under the mutex while another is at its native
\* allocation and the third at its native free
C27_Witness ==
    /\ mtx_[0] = 1 /\ pc[1] = "meminfo_avail"
    /\ pc[2] = "malloc_native" /\ pc[3] = "free_native"

\* thread t is in a call that has not completed
InCall(t) == pc[t] \notin {"idle", "done"}

\* C28: if every native allocation and free terminates, every call that was
\* started completes (returns or raises); and a GetMemInfo call and an
\* accessor call (Instance and a read) complete even if native allocations
\* or frees of other threads never return.
C28_CallsComplete ==
    /\ (\A t \in Callers : WF_vars(NativeStep(t)))
          => \A t \in Callers : InCall(t) ~> pc[t] = "done"
    /\ \A t \in Callers :
          (InCall(t) /\ call[t].op \in {"GetMemInfo", "LimitSize"})
              ~> pc[t] = "done"

\* a GetMemInfo call waits for the mutex its peer holds
C28_Witness ==
    /\ pc[1] = "meminfo_lock" /\ pc[2] = "meminfo_total"
    /\ mtx_[0] = 2 /\ DevOf(1) = 0

\* C29: a helper has a mutex exactly when its limit is not 0, from its
\* construction on (a helper in the table never changes); a GetMemInfo call
\* that locks, or computes under the lock, is on a helper that has a mutex,
\* and only the mutex of such a helper is ever held.
C29_MutexIffLimit ==
    /\ [](/\ \A i \in 1..Len(instances_) :
                instances_[i].has_mtx <=> instances_[i].limit_size_ # 0
          /\ \A t \in Threads :
                InMemInfo(t) => HelperOf(t).has_mtx
          /\ \A d \in Devices :
                mtx_[d] # NoThread
                    => (Built /\ instances_[TableIndex(d)].has_mtx))
    /\ [][\A i \in 1..Len(instances_) : instances_'[i] = instances_[i]]_vars

\* GetMemInfo has returned on a helper without limit and without mutex,
\* after a Malloc on it
C29_Witness ==
    /\ pc[1] = "done" /\ call[1].op = "GetMemInfo"
    /\ ret[1].kind = "Returned" /\ ret[1].val = 0
    /\ Built /\ ~instances_[TableIndex(0)].has_mtx
    /\ cur_size_[0] = 50 * MB
    /\ mtx_[0] = NoThread

\* C30 (as stated, for callers that pass Free the size of the block): a
\* helper with limit 0 does not record: NeedRecord() is false and cur_size_
\* of its device stays 0 whatever Malloc and Free calls are made.
C30_UnrecordedStaysZero ==
    \A d \in Devices :
        (Built /\ Limit(d) = 0 /\ ~missized[d])
            => /\ ~NeedRecord(instances_[TableIndex(d)])
               /\ cur_size_[d] = 0

\* C31 (as stated): whenever Malloc returns (OutOfMemory from the limit
\* check, Success, OutOfMemory from the native call), the last-error flag of
\* the calling thread is clear.
C31_FlagClearAtReturn ==
    \A t \in Threads :
        (pc[t] = "done" /\ call[t].op = "Malloc"
         /\ ret[t].kind \in {"Success", "OutOfMemory"})
            => last_error[t] = "none"

\* C32 (as stated): once a call has been made, no step changes what
\* GpuInitAllocSize() and GpuReallocSize() (and with them GpuMaxChunkSize())
\* return for a given answer of the device layer, the limit of a helper, or
\* whether the destructor of a helper writes its line: later changes of the
\* flags have no effect.
C32_ReadOnce ==
    [][nCalls > 0 =>
        /\ \A realloc \in BOOLEAN, available \in AvailChoices :
              SizeFor(realloc, available)' = SizeFor(realloc, available)
        /\ \A i \in 1..Len(instances_) :
              /\ instances_'[i].limit_size_ = instances_[i].limit_size_
              /\ DtorPrints(instances_[i])' = DtorPrints(instances_[i])]_vars

\* the exit of the process is complete
Exited == once_flag_ = "done" /\ Destroyed = Devices

\* the lines device d's helper wrote at exit
UsageLines(d) ==
    {k \in 1..Len(exit_log) : exit_log[k].dev = d /\ exit_log[k].printed}

\* C33 (as stated): at process exit the helper of a device writes its
\* memory-usage line if and only if the logging flag is set and the helper
\* records (its limit is not 0), and it writes at most one.
C33_ExitLine ==
    \A d \in Devices :
        /\ Cardinality(UsageLines(d)) <= 1
        /\ Exited =>
              (UsageLines(d) # {}
                  <=> (FLAGS_enable_gpu_memory_usage_log /\ Limit(d) # 0))

\* the blocks of device d handed out and not freed that contain address q
Containing(d, q) ==
    {blk \in blocks[d] : blk.base <= q /\ q < blk.base + blk.size}

\* C34 (as stated): a non-null address GetBasePtr(q) returns is the base of
\* a block handed out and not freed that contains q, and for a q that no
\* such block contains it returns null.
C34_Original ==
    \A t \in Threads :
        (pc[t] = "done" /\ call[t].op = "GetBasePtr"
         /\ ret[t].kind = "Returned")
            => LET in == Containing(call[t].dev, call[t].ptr)
               IN /\ ret[t].ptr # NULL => \E blk \in in : blk.base = ret[t].ptr
                  /\ in = {} => ret[t].ptr = NULL

\* C34 (amended): for a q inside a block handed out and not freed
\* GetBasePtr(q) returns the base of that block; a non-null address it
\* returns is the base of such a block at or below q (the nearest one, also
\* when q lies past the end of that block); it returns null when no block
\* begins at or below q.
C34_NearestBase ==
    \A t \in Threads :
        (pc[t] = "done" /\ call[t].op = "GetBasePtr"
         /\ ret[t].kind = "Returned")
            => LET d == call[t].dev
                   q == call[t].ptr
               IN /\ \A blk \in Containing(d, q) : ret[t].ptr = blk.base
                  /\ ret[t].ptr # NULL =>
                        /\ \E blk \in blocks[d] : blk.base = ret[t].ptr
                        /\ ret[t].ptr <= q
                        /\ \A blk \in blocks[d] :
                              blk.base <= q => blk.base <= ret[t].ptr
                  /\ (\A blk \in blocks[d] : blk.base > q) => ret[t].ptr = NULL

\* an address inside the second of two live blocks
C34_Witness ==
    /\ pc[1] = "done" /\ call[1].op = "GetBasePtr"
    /\ call[1].ptr = SlotBase(2) + MB /\ ret[1].ptr = SlotBase(2)
    /\ Cardinality(blocks[0]) = 2
    /\ Containing(0, call[1].ptr) # {}

\* the operations of a helper that C35 is about
DeviceOps ==
    {"Malloc", "Free", "GetMemInfo", "GetBasePtr", "MemCreate", "MemRelease"}

\* C35: no step of Malloc, Free, GetMemInfo, GetBasePtr, MemCreate or
\* MemRelease called for device d changes the counter, the limit or the
\* address index of another device.
C35_Isolation ==
    [][\A t \in Threads :
          (Acted(t) /\ call[t].op \in DeviceOps)
              => \A other \in Devices \ {call[t].dev} :
                    /\ cur_size_'[other] = cur_size_[other]
                    /\ gpu_ptrs'[other] = gpu_ptrs[other]
                    /\ Built =>
                          instances_'[other + 1].limit_size_ =
                              instances_[other + 1].limit_size_]_vars

\* a block of device 1 was freed while device 0 keeps its own
C35_Witness ==
    /\ pc[1] = "done" /\ call[1].op = "Free" /\ call[1].dev = 1
    /\ ret[1].kind = "Returned"
    /\ cur_size_[1] = 0 /\ gpu_ptrs[1] = {}
    /\ cur_size_[0] = 60 * MB /\ gpu_ptrs[0] # {}

\* max(0, limit_size_ - cur_size_) of device d, the difference as a number
Headroom(d) ==
    IF Limit(d) > cur_size_[d] THEN Limit(d) - cur_size_[d] ELSE 0

\* C36: on a recording helper the avail that GetMemInfo reports is at most
\* max(0, limit_size_ - cur_size_), also when cur_size_ is above limit_size_
\* (stated for callers that pass Free the size of the block).
C36_WithinHeadroom ==
    \A t \in Threads :
        (pc[t] = "done" /\ call[t].op = "GetMemInfo"
         /\ ret[t].kind = "Returned" /\ Limit(call[t].dev) # 0
         /\ ~missized[call[t].dev])
            => ret[t].mem[1] <= Headroom(call[t].dev)

\* C37: at most one thread at a time is inside an access to the address
\* set of a helper: while a thread is at the insert or the erase, no other
\* thread is at the insert, the erase or the lookup of the same gpu_ptrs.
C37_IndexExclusive ==
    \A t, u \in Threads :
        (t # u /\ AtIndexWrite(t) /\ AtIndex(u))
            => loc[t].helper # loc[u].helper

\* C38: when no call is in progress, the address set of a device holds
\* exactly the addresses of the allocations whose size cur_size_ still
\* includes, also after a Free during driver unloading and after zero-size
\* allocations (stated for callers that pass Free the size of the block, and
\* for the addresses other than nullptr, which is the address of the
\* zero-size allocations, whose size adds nothing to cur_size_).
C38_IndexMatchesCounter ==
    \A d \in Devices :
        (Quiescent /\ Built /\ ~missized[d])
            => gpu_ptrs[d] \ {NULL} = {c.base : c \in counted[d]} \ {NULL}

====
